---- MODULE Spec2Model ----
(***************************************************************************)
(* A model of the Strata ahead-of-time compiler (src/compiler): lexer,     *)
(* parser, type checker and x86-64 code generator.  Each phase has its own *)
(* specification over the shared variables; the phases that a              *)
(* specification does not exercise stay idle in it.                        *)
(***************************************************************************)
EXTENDS Integers, Sequences, FiniteSets, TLC

VARIABLES
    \* TypeInfo::isCompatible applied to one pair of types
    cActual, cExpected, cResult, cDone,
    \* TypeChecker (type_checker.hpp:61-64)
    scopes_, functions_, currentReturnType_, inFunction_,
    \* the traversal of TypeChecker::check: position, statement in hand,
    \* open block handlers, thrown TypeError
    tcPc, stmt, tcFrames, tcError, tcCount,
    \* history of the traversal
    tcBefore, tcPopped, tcOuter, tcKw, tcCalls,
    \* Parser (parser.hpp:58-59), the expression it returned, and the
    \* operators and operand form its token list was built from; for a
    \* program, parShape is the block its statements stand in and parPlain
    \* holds the tokens of the same program without its semicolon
    tokens_, current_, parPc, parsed, parOps, parShape, parPlain,
    \* Lexer (lexer.hpp), the vector tokenize fills, the position of
    \* tokenize, and what <cctype> does with a byte above 0x7F
    source_, pos_, line_, column_, tokenStart_, tokenLine_, tokenColumn_,
    tokens, lexPc, ctypeHigh,
    \* CodeGenerator (codegen.hpp:71-83); scopes_ of the generator is cgScopes
    output_, stackOffset_, labelCounter_, stringCounter_, cgScopes, breakLabel_,
    continueLabel_, stringLiterals_,
    \* what generate has emitted: the break and continue jumps, the && and ||
    \* expressions, the print calls, the calls of user functions; the position
    \* of generate, the main statement (or the program) in hand
    cgJumps, cgRegions, cgPrints, cgCalls, cgPc, cgStmt, cgCount,
    \* the processor running the emitted code: instruction pointer, the line
    \* executed last, registers, stack memory, flags, rax as it was before
    \* each line, and what the print routines were called with
    ip, prev, regs, mem, flags, raxAt, printed,
    \* Compiler (compiler.hpp:30-34; source_ of the compiler is compilerSource)
    \* and its surroundings: the bytes of the input file, the intermediate
    \* files this compilation has on disk, the order in which the standard
    \* library of the build walks an unordered_map
    options_, compilerSource, assembly_, inputFile, disk, bucketOrder,
    \* the position of Compiler::compile and of main, the phases started with
    \* their outcomes, what compile returned, the exit code of the process,
    \* the number of the run over the same input and the assembly of the
    \* first run
    cmPc, cmPhases, cmReturn, exitCode, cmRun, firstAssembly

compatVars == <<cActual, cExpected, cResult, cDone>>
tcVars == <<scopes_, functions_, currentReturnType_, inFunction_,
            tcPc, stmt, tcFrames, tcError, tcCount,
            tcBefore, tcPopped, tcOuter, tcKw, tcCalls>>
parVars == <<tokens_, current_, parPc, parsed, parOps, parShape, parPlain>>
lexVars == <<source_, pos_, line_, column_, tokenStart_, tokenLine_, tokenColumn_,
             tokens, lexPc, ctypeHigh>>
cgVars == <<output_, stackOffset_, labelCounter_, stringCounter_, cgScopes,
            breakLabel_, continueLabel_, stringLiterals_, cgJumps, cgRegions,
            cgPrints, cgCalls, cgPc, cgStmt, cgCount, ip, prev, regs, mem, flags, raxAt,
            printed>>
cmVars == <<options_, compilerSource, assembly_, inputFile, disk, bucketOrder,
            cmPc, cmPhases, cmReturn, exitCode, cmRun, firstAssembly>>
vars == <<compatVars, tcVars, parVars, lexVars, cgVars, cmVars>>

\* what each phase leaves alone
notCompatVars == <<tcVars, parVars, lexVars, cgVars, cmVars>>
notTcVars == <<compatVars, parVars, lexVars, cgVars, cmVars>>
notParVars == <<compatVars, tcVars, lexVars, cgVars, cmVars>>
notLexVars == <<compatVars, tcVars, parVars, cgVars, cmVars>>
notCgVars == <<compatVars, tcVars, parVars, lexVars, cmVars>>
notCmVars == <<compatVars, tcVars, parVars, lexVars, cgVars>>

-----------------------------------------------------------------------------
(* Bounds of the model *)

\* statements one checked program holds
MaxStmts == 3
\* blocks open at once
MaxDepth == 2

-----------------------------------------------------------------------------
(* AST model (ast.hpp) *)

PrimitiveType == {"INT", "FLOAT", "BOOL", "CHAR", "STRING", "VOID", "ANY"}

TypeInfo == [primitive : PrimitiveType, isOptional : BOOLEAN]

T(p) == [primitive |-> p, isOptional |-> FALSE]

IntLit(v) == [kind |-> "Literal", type |-> T("INT"), value |-> v]
BoolLit(b) == [kind |-> "Literal", type |-> T("BOOL"), value |-> IF b THEN 1 ELSE 0]
StrLit(s) == [kind |-> "Literal", type |-> T("STRING"), str |-> s]
Id(n) == [kind |-> "Identifier", name |-> n]
Bin(op, l, r) == [kind |-> "Binary", op |-> op, left |-> l, right |-> r]
Un(op, e) == [kind |-> "Unary", op |-> op, operand |-> e]
Call(c, args) == [kind |-> "Call", callee |-> c, arguments |-> args]
Member(o, p) == [kind |-> "Member", object |-> o, property |-> p]

Param(n, t) == [name |-> n, type |-> t]

-----------------------------------------------------------------------------
(* TypeInfo::isCompatible *)

isCompatibleSymmetric(self, other) ==
    \/ self.primitive = "ANY" \/ other.primitive = "ANY"
    \/ self.primitive = other.primitive
    \/ {self.primitive, other.primitive} = {"INT", "FLOAT"}
    \/ {self.primitive, other.primitive} = {"CHAR", "STRING"}

isCompatible(self, other) ==
    IF self.primitive = "ANY" \/ other.primitive = "ANY" THEN TRUE
    ELSE IF self.primitive = other.primitive THEN TRUE
    ELSE IF self.primitive = "INT" /\ other.primitive = "FLOAT" THEN TRUE
    ELSE IF self.primitive = "CHAR" /\ other.primitive = "STRING" THEN TRUE
    ELSE FALSE

IdleCompat ==
    /\ cActual = T("ANY")
    /\ cExpected = T("ANY")
    /\ cResult = FALSE
    /\ cDone = FALSE

InitCompat ==
    /\ cActual \in TypeInfo
    /\ cExpected \in TypeInfo
    /\ cResult = FALSE
    /\ cDone = FALSE

CallIsCompatible ==
    /\ ~cDone
    /\ cResult' = isCompatible(cActual, cExpected)
    /\ cDone' = TRUE
    /\ UNCHANGED <<cActual, cExpected>>

-----------------------------------------------------------------------------
(* TypeChecker: symbol tables *)

Err(text, name) == [text |-> text, name |-> name]
NoErr == Err("", "")

VariableInfo(type, mutable_) == [type |-> type, mutable_ |-> mutable_]
FunctionInfo(paramTypes, returnType) ==
    [paramTypes |-> paramTypes, returnType |-> returnType]

EmptyMap == [n \in {} |-> 0]

MapPut(m, k, v) == [n \in DOMAIN m \cup {k} |-> IF n = k THEN v ELSE m[n]]

enterScope(sc) == Append(sc, EmptyMap)

exitScope(sc) == SubSeq(sc, 1, Len(sc) - 1)

declareVariableOutermost(sc, name, type, mutable_) ==
    IF sc # <<>>
    THEN [sc EXCEPT ![1] = MapPut(@, name, VariableInfo(type, mutable_))]
    ELSE sc

declareVariable(sc, name, type, mutable_) ==
    IF sc # <<>>
    THEN [sc EXCEPT ![Len(sc)] = MapPut(@, name, VariableInfo(type, mutable_))]
    ELSE sc

nullptr == [found |-> FALSE, type |-> T("ANY"), mutable_ |-> FALSE]

RECURSIVE lookupFrom(_, _, _)
lookupFrom(sc, i, name) ==
    IF i = 0 THEN nullptr
    ELSE IF name \in DOMAIN sc[i]
         THEN [found |-> TRUE, type |-> sc[i][name].type,
               mutable_ |-> sc[i][name].mutable_]
         ELSE lookupFrom(sc, i - 1, name)

lookupVariable(sc, name) == lookupFrom(sc, Len(sc), name)

declareFunction(fn, name, params, returnType) ==
    MapPut(fn, name, FunctionInfo(params, returnType))

lookupFunction(fn, name) ==
    IF name \in DOMAIN fn
    THEN [found |-> TRUE, paramTypes |-> fn[name].paramTypes,
          returnType |-> fn[name].returnType]
    ELSE [found |-> FALSE, paramTypes |-> <<>>, returnType |-> T("ANY")]

-----------------------------------------------------------------------------
(* TypeChecker: expressions *)

Ok(t) == [ok |-> TRUE, type |-> t, err |-> NoErr]
Throw(text, name) == [ok |-> FALSE, type |-> T("ANY"), err |-> Err(text, name)]

NotBoolNorAny(t) == t.primitive # "BOOL" /\ t.primitive # "ANY"

RECURSIVE checkExpression(_, _, _)
RECURSIVE checkBinaryExpr(_, _, _)
RECURSIVE checkUnaryExpr(_, _, _)
RECURSIVE checkCallExpr(_, _, _)
RECURSIVE checkArguments(_, _, _, _, _)

checkExpression(e, sc, fn) ==
    IF e.kind = "Literal" THEN Ok(e.type)
    ELSE IF e.kind = "Identifier"
    THEN LET var == lookupVariable(sc, e.name)
         IN IF var.found THEN Ok(var.type) ELSE Ok(T("ANY"))
    ELSE IF e.kind = "Binary" THEN checkBinaryExpr(e, sc, fn)
    ELSE IF e.kind = "Unary" THEN checkUnaryExpr(e, sc, fn)
    ELSE IF e.kind = "Call" THEN checkCallExpr(e, sc, fn)
    ELSE IF e.kind = "Member" THEN Ok(T("ANY"))
    ELSE Ok(T("ANY"))

checkBinaryExpr(e, sc, fn) ==
    LET leftType == checkExpression(e.left, sc, fn)
    IN IF ~leftType.ok THEN leftType
       ELSE LET rightType == checkExpression(e.right, sc, fn)
            IN IF ~rightType.ok THEN rightType
               ELSE IF e.op \in {"==", "!=", "<", ">", "<=", ">="}
               THEN Ok(T("BOOL"))
               ELSE IF e.op \in {"&&", "||"}
               THEN IF NotBoolNorAny(leftType.type)
                    THEN Throw("Logical operator requires boolean operands", "")
                    ELSE Ok(T("BOOL"))
               ELSE IF e.op \in {"+", "-", "*", "/", "%"}
               THEN IF leftType.type.primitive = "FLOAT"
                       \/ rightType.type.primitive = "FLOAT"
                    THEN Ok(T("FLOAT"))
                    ELSE IF leftType.type.primitive = "STRING" /\ e.op = "+"
                    THEN Ok(T("STRING"))
                    ELSE Ok(T("INT"))
               ELSE Ok(leftType.type)

checkUnaryExpr(e, sc, fn) ==
    LET operandType == checkExpression(e.operand, sc, fn)
    IN IF ~operandType.ok THEN operandType
       ELSE IF e.op = "!"
       THEN IF NotBoolNorAny(operandType.type)
            THEN Throw("Logical not requires boolean operand", "")
            ELSE Ok(T("BOOL"))
       ELSE IF e.op \in {"-", "+"} THEN Ok(operandType.type)
       ELSE IF e.op = "~" THEN Ok(T("INT"))
       ELSE Ok(operandType.type)

\* the argument loop of checkCallExpr, from argument i on
checkArguments(args, i, paramTypes, sc, fn) ==
    IF i > Len(args) THEN Ok(T("VOID"))
    ELSE LET argType == checkExpression(args[i], sc, fn)
         IN IF ~argType.ok THEN argType
            ELSE IF ~isCompatible(argType.type, paramTypes[i])
            THEN Throw("Argument type mismatch", "")
            ELSE checkArguments(args, i + 1, paramTypes, sc, fn)

checkCallExpr(e, sc, fn) ==
    IF e.callee.kind = "Identifier"
    THEN LET func == lookupFunction(fn, e.callee.name)
         IN IF func.found
            THEN IF Len(e.arguments) # Len(func.paramTypes)
                 THEN Throw("Wrong number of arguments", "")
                 ELSE LET a == checkArguments(e.arguments, 1, func.paramTypes, sc, fn)
                      IN IF ~a.ok THEN a ELSE Ok(func.returnType)
            ELSE Ok(T("ANY"))
    ELSE Ok(T("ANY"))

-----------------------------------------------------------------------------
(* TypeChecker: statements that open no block.  Each yields the scope      *)
(* tables it leaves, or the TypeError it throws.                           *)

NoExpr == [kind |-> "None"]
NoStmt == [kind |-> "None"]

\* parseLetStatement: `var` gives a mutable binding, `let` and `const` do not
LetStmt(kw, name, type, value) ==
    [kind |-> "Let", kw |-> kw, name |-> name, type |-> type, value |-> value,
     mutable_ |-> (kw = "var")]
AssignStmt(target, value) == [kind |-> "Assign", target |-> target, value |-> value]
ExprStmt(e) == [kind |-> "Expr", expr |-> e]
ReturnStmt(value) == [kind |-> "Return", value |-> value]
\* an if, while, for or function statement; the statements of its blocks
\* follow it one by one
IfStmt(c, hasElse) == [kind |-> "If", condition |-> c, hasElse |-> hasElse]
WhileStmt(c) == [kind |-> "While", condition |-> c]
ForStmt(init, c, update) ==
    [kind |-> "For", init |-> init, condition |-> c, update |-> update]
FunctionStmt(name, params, returnType) ==
    [kind |-> "Function", name |-> name, params |-> params, returnType |-> returnType]
OtherStmt(kind) == [kind |-> kind]
\* statements with their blocks, as the parser hands them to generate
WhileLoop(condition, body) ==
    [kind |-> "While", condition |-> condition, body |-> body]
ForLoop(init, condition, update, body) ==
    [kind |-> "For", init |-> init, condition |-> condition, update |-> update,
     body |-> body]
IfElse(condition, thenBranch, elseBranch) ==
    [kind |-> "If", condition |-> condition, thenBranch |-> thenBranch,
     elseBranch |-> elseBranch]
BreakStmt == OtherStmt("Break")
ContinueStmt == OtherStmt("Continue")

Pass(sc) == [ok |-> TRUE, err |-> NoErr, scopes |-> sc]
Fail(err, sc) == [ok |-> FALSE, err |-> err, scopes |-> sc]

checkLetStmt(s, sc, fn) ==
    LET valueType == checkExpression(s.value, sc, fn)
    IN IF ~valueType.ok THEN Fail(valueType.err, sc)
       ELSE IF ~isCompatible(valueType.type, s.type)
       THEN Fail(Err("Type mismatch", ""), sc)
       ELSE Pass(declareVariable(sc, s.name, s.type, s.mutable_))

checkAssignStmtNoMutableTest(s, sc, fn) ==
    LET var == lookupVariable(sc, s.target)
    IN IF ~var.found THEN Fail(Err("Undefined variable: ", s.target), sc)
       ELSE LET valueType == checkExpression(s.value, sc, fn)
            IN IF ~valueType.ok THEN Fail(valueType.err, sc)
               ELSE IF ~isCompatible(valueType.type, var.type)
               THEN Fail(Err("Type mismatch in assignment", ""), sc)
               ELSE Pass(sc)

checkAssignStmt(s, sc, fn) ==
    LET var == lookupVariable(sc, s.target)
    IN IF ~var.found THEN Fail(Err("Undefined variable: ", s.target), sc)
       ELSE IF ~var.mutable_
       THEN Fail(Err("Cannot assign to immutable variable: ", s.target), sc)
       ELSE LET valueType == checkExpression(s.value, sc, fn)
            IN IF ~valueType.ok THEN Fail(valueType.err, sc)
               ELSE IF ~isCompatible(valueType.type, var.type)
               THEN Fail(Err("Type mismatch in assignment", ""), sc)
               ELSE Pass(sc)

checkExprStmt(s, sc, fn) ==
    LET t == checkExpression(s.expr, sc, fn)
    IN IF ~t.ok THEN Fail(t.err, sc) ELSE Pass(sc)

\* checkReturnStmt without the test of the value against currentReturnType_
checkReturnStmtAnyValue(s, sc, fn, inFunction, currentReturnType) ==
    IF ~inFunction THEN Fail(Err("Return statement outside function", ""), sc)
    ELSE IF s.value # NoExpr THEN Pass(sc)
    ELSE IF currentReturnType.primitive # "VOID"
    THEN Fail(Err("Function must return a value", ""), sc)
    ELSE Pass(sc)

checkReturnStmt(s, sc, fn, inFunction, currentReturnType) ==
    IF ~inFunction THEN Fail(Err("Return statement outside function", ""), sc)
    ELSE IF s.value # NoExpr
    THEN LET valueType == checkExpression(s.value, sc, fn)
         IN IF ~valueType.ok THEN Fail(valueType.err, sc)
            ELSE IF ~isCompatible(valueType.type, currentReturnType)
            THEN Fail(Err("Return type mismatch", ""), sc)
            ELSE Pass(sc)
    ELSE IF currentReturnType.primitive # "VOID"
    THEN Fail(Err("Function must return a value", ""), sc)
    ELSE Pass(sc)

\* checkStatement on a statement that opens no block (the init and update
\* clauses of a for statement are such statements here)
checkStatement(s, sc, fn, inFunction, currentReturnType) ==
    IF s.kind = "Let" THEN checkLetStmt(s, sc, fn)
    ELSE IF s.kind = "Assign" THEN checkAssignStmt(s, sc, fn)
    ELSE IF s.kind = "Return"
    THEN checkReturnStmt(s, sc, fn, inFunction, currentReturnType)
    ELSE IF s.kind = "Expr" THEN checkExprStmt(s, sc, fn)
    ELSE Pass(sc)

checkCondition(c, sc, fn) ==
    LET condType == checkExpression(c, sc, fn)
    IN IF ~condType.ok THEN Fail(condType.err, sc)
       ELSE IF NotBoolNorAny(condType.type)
       THEN Fail(Err("Condition must be boolean", ""), sc)
       ELSE Pass(sc)

-----------------------------------------------------------------------------
(* The programs the type checker is run on.  A program is met statement by *)
(* statement, in the order TypeChecker::check visits it; the statements of *)
(* a block follow the statement that opens it, up to the block's end.      *)

TcNames == {"x", "y"}

TcOperands == {IntLit(1), BoolLit(TRUE), Id("x")}

TcCalls ==
    {Call(Id("f"), args) :
        args \in {<<>>, <<IntLit(1)>>, <<BoolLit(TRUE)>>, <<IntLit(1), IntLit(2)>>}}

TcExprs ==
    TcOperands
    \cup {Id("y"), Member(Id("io"), "x")}
    \cup {Bin(op, l, r) : op \in {"&&", "||"}, l \in TcOperands, r \in TcOperands}
    \cup {Bin("+", IntLit(1), Id("x")), Bin("<", Id("x"), IntLit(1))}
    \cup {Un("!", e) : e \in TcOperands}
    \cup TcCalls
    \cup {Call(Member(Id("io"), "print"), <<a>>) :
            a \in {IntLit(1), Un("!", IntLit(1)), Un("!", BoolLit(TRUE))} \cup TcCalls}
    \cup {Call(Id("f"), <<Un("!", IntLit(1))>>),
          Call(Id("f"), <<Bin("&&", IntLit(1), BoolLit(TRUE))>>)}

TcValues == TcOperands \cup {Un("!", IntLit(1)), Call(Id("f"), <<IntLit(1)>>)}

TcLets ==
    {LetStmt(kw, n, T(t), v) :
        kw \in {"let", "const", "var"}, n \in TcNames, t \in {"INT", "BOOL"},
        v \in {IntLit(1), BoolLit(TRUE)}}

TcAssigns == {AssignStmt(n, v) : n \in TcNames, v \in TcValues}

TcSimpleStmts ==
    TcLets
    \cup TcAssigns
    \cup {ExprStmt(e) : e \in TcExprs}
    \cup {ReturnStmt(v) : v \in {NoExpr, IntLit(1), BoolLit(TRUE)}}
    \cup {OtherStmt(k) : k \in {"Import", "Break", "Continue"}}

TcParams ==
    {<<>>, <<Param("x", T("INT"))>>, <<Param("x", T("INT")), Param("y", T("BOOL"))>>}

TcBlockStmts ==
    {IfStmt(c, e) : c \in TcOperands, e \in BOOLEAN}
    \cup {WhileStmt(c) : c \in TcOperands}
    \cup {ForStmt(LetStmt("var", "y", T("INT"), IntLit(1)), c, u) :
            c \in {Bin("<", Id("y"), IntLit(1)), IntLit(1)},
            u \in {AssignStmt("y", IntLit(1)), AssignStmt("x", IntLit(1))}}
    \cup {FunctionStmt("f", ps, T(r)) : ps \in TcParams, r \in {"INT", "VOID"}}

-----------------------------------------------------------------------------
(* TypeChecker::check as a state machine *)

Frame(kind, hasElse, outer, savedReturnType, savedInFunction) ==
    [kind |-> kind, hasElse |-> hasElse, n |-> 0, outer |-> outer,
     savedReturnType |-> savedReturnType, savedInFunction |-> savedInFunction]

\* the frame of checkFunctionStmt: savedReturnType, savedInFunction, and the
\* declared return type of the function whose body is being checked
FunctionFrame(s, outer, savedReturnType, savedInFunction) ==
    [kind |-> "function", hasElse |-> FALSE, n |-> 0, outer |-> outer,
     savedReturnType |-> savedReturnType, savedInFunction |-> savedInFunction,
     returnType |-> s.returnType]

Top(frames) == frames[Len(frames)]
Pop(frames) == SubSeq(frames, 1, Len(frames) - 1)

RECURSIVE ExprCalls(_)
\* every call of a bare name in an expression, as <<name, number of arguments>>
ExprCalls(e) ==
    IF e.kind = "Binary" THEN ExprCalls(e.left) \cup ExprCalls(e.right)
    ELSE IF e.kind = "Unary" THEN ExprCalls(e.operand)
    ELSE IF e.kind = "Member" THEN ExprCalls(e.object)
    ELSE IF e.kind = "Call"
    THEN (IF e.callee.kind = "Identifier"
          THEN {<<e.callee.name, Len(e.arguments)>>}
          ELSE ExprCalls(e.callee))
         \cup UNION {ExprCalls(e.arguments[i]) : i \in 1..Len(e.arguments)}
    ELSE {}

RECURSIVE StmtCalls(_)
StmtCalls(s) ==
    IF s.kind \in {"Let", "Assign"} THEN ExprCalls(s.value)
    ELSE IF s.kind = "Return"
    THEN IF s.value = NoExpr THEN {} ELSE ExprCalls(s.value)
    ELSE IF s.kind = "Expr" THEN ExprCalls(s.expr)
    ELSE IF s.kind \in {"If", "While"} THEN ExprCalls(s.condition)
    ELSE IF s.kind = "For"
    THEN StmtCalls(s.init) \cup ExprCalls(s.condition) \cup StmtCalls(s.update)
    ELSE {}

\* the calls in a statement of functions that are declared when the
\* statement is checked, as <<name, arguments passed, parameters declared>>
KnownCalls(s, fn) ==
    {<<c[1], c[2], Len(fn[c[1]].paramTypes)>> :
        c \in {d \in StmtCalls(s) : d[1] \in DOMAIN fn}}

KwPut(kws, name, kw) == [kws EXCEPT ![Len(kws)] = MapPut(@, name, kw)]

RECURSIVE declareParams(_, _, _)
\* the parameter loop of checkFunctionStmt, from parameter i on
declareParams(sc, params, i) ==
    IF i > Len(params) THEN sc
    ELSE declareParams(declareVariable(sc, params[i].name, params[i].type, FALSE),
                       params, i + 1)

RECURSIVE KwParams(_, _, _)
KwParams(kws, params, i) ==
    IF i > Len(params) THEN kws
    ELSE KwParams(KwPut(kws, params[i].name, "param"), params, i + 1)

paramTypesOf(params) == [i \in 1..Len(params) |-> params[i].type]

IdleTc ==
    /\ scopes_ = <<>>
    /\ functions_ = EmptyMap
    /\ currentReturnType_ = T("VOID")
    /\ inFunction_ = FALSE
    /\ tcPc = "idle"
    /\ stmt = NoStmt
    /\ tcFrames = <<>>
    /\ tcError = NoErr
    /\ tcCount = 0
    /\ tcBefore = <<>>
    /\ tcPopped = EmptyMap
    /\ tcOuter = <<>>
    /\ tcKw = <<>>
    /\ tcCalls = {}

\* TypeChecker::TypeChecker
InitTc ==
    /\ scopes_ = enterScope(<<>>)
    /\ functions_ = EmptyMap
    /\ currentReturnType_ = T("VOID")
    /\ inFunction_ = FALSE
    /\ tcPc = "ready"
    /\ stmt = NoStmt
    /\ tcFrames = <<>>
    /\ tcError = NoErr
    /\ tcCount = 0
    /\ tcBefore = <<>>
    /\ tcPopped = EmptyMap
    /\ tcOuter = <<>>
    /\ tcKw = <<EmptyMap>>
    /\ tcCalls = {}

\* the next statement of the block being checked comes up
Fetch ==
    /\ tcPc = "ready"
    /\ tcCount < MaxStmts
    /\ \E s \in TcSimpleStmts \cup TcBlockStmts :
          /\ s \in TcBlockStmts => Len(tcFrames) < MaxDepth
          /\ stmt' = s
    /\ tcPc' = "fetched"
    /\ tcCount' = tcCount + 1
    /\ tcBefore' = scopes_
    /\ tcPopped' = EmptyMap
    /\ tcOuter' = <<>>
    /\ tcFrames' = IF tcFrames = <<>> THEN tcFrames
                   ELSE [tcFrames EXCEPT ![Len(tcFrames)].n = @ + 1]
    /\ UNCHANGED <<scopes_, functions_, currentReturnType_, inFunction_, tcError,
                   tcKw, tcCalls>>

\* the outcome of a handler: it returns, or its TypeError leaves check
Outcome(r) ==
    /\ scopes_' = r.scopes
    /\ tcPc' = IF r.ok THEN "checked" ELSE "error"
    /\ tcError' = r.err
    /\ tcCalls' = IF r.ok THEN tcCalls \cup KnownCalls(stmt, functions_) ELSE tcCalls

CheckLetStmt ==
    /\ tcPc = "fetched" /\ stmt.kind = "Let"
    /\ LET r == checkLetStmt(stmt, scopes_, functions_)
       IN /\ Outcome(r)
          /\ tcKw' = IF r.ok THEN KwPut(tcKw, stmt.name, stmt.kw) ELSE tcKw
    /\ UNCHANGED <<functions_, currentReturnType_, inFunction_, stmt, tcFrames,
                   tcCount, tcBefore, tcPopped, tcOuter>>
    /\ UNCHANGED notTcVars

CheckAssignStmt ==
    /\ tcPc = "fetched" /\ stmt.kind = "Assign"
    /\ Outcome(checkAssignStmt(stmt, scopes_, functions_))
    /\ UNCHANGED <<functions_, currentReturnType_, inFunction_, stmt, tcFrames,
                   tcCount, tcBefore, tcPopped, tcOuter, tcKw>>
    /\ UNCHANGED notTcVars

CheckExprStmt ==
    /\ tcPc = "fetched" /\ stmt.kind = "Expr"
    /\ Outcome(checkExprStmt(stmt, scopes_, functions_))
    /\ UNCHANGED <<functions_, currentReturnType_, inFunction_, stmt, tcFrames,
                   tcCount, tcBefore, tcPopped, tcOuter, tcKw>>
    /\ UNCHANGED notTcVars

CheckReturnStmt ==
    /\ tcPc = "fetched" /\ stmt.kind = "Return"
    /\ Outcome(checkReturnStmt(stmt, scopes_, functions_, inFunction_,
                               currentReturnType_))
    /\ UNCHANGED <<functions_, currentReturnType_, inFunction_, stmt, tcFrames,
                   tcCount, tcBefore, tcPopped, tcOuter, tcKw>>
    /\ UNCHANGED notTcVars

\* import, break and continue statements: checkStatement does nothing
CheckOtherStmt ==
    /\ tcPc = "fetched" /\ stmt.kind \in {"Import", "Break", "Continue"}
    /\ Outcome(Pass(scopes_))
    /\ UNCHANGED <<functions_, currentReturnType_, inFunction_, stmt, tcFrames,
                   tcCount, tcBefore, tcPopped, tcOuter, tcKw>>
    /\ UNCHANGED notTcVars

\* checkIfStmt up to the first statement of the then branch
CheckIfStmt ==
    /\ tcPc = "fetched" /\ stmt.kind = "If"
    /\ LET c == checkCondition(stmt.condition, scopes_, functions_)
       IN /\ Outcome(IF c.ok THEN Pass(enterScope(scopes_)) ELSE c)
          /\ tcKw' = IF c.ok THEN Append(tcKw, EmptyMap) ELSE tcKw
          /\ tcFrames' = IF c.ok
                         THEN Append(tcFrames, Frame("then", stmt.hasElse, scopes_,
                                         currentReturnType_, inFunction_))
                         ELSE tcFrames
    /\ UNCHANGED <<functions_, currentReturnType_, inFunction_, stmt,
                   tcCount, tcBefore, tcPopped, tcOuter>>
    /\ UNCHANGED notTcVars

\* checkWhileStmt up to the first statement of the body
CheckWhileStmt ==
    /\ tcPc = "fetched" /\ stmt.kind = "While"
    /\ LET c == checkCondition(stmt.condition, scopes_, functions_)
       IN /\ Outcome(IF c.ok THEN Pass(enterScope(scopes_)) ELSE c)
          /\ tcKw' = IF c.ok THEN Append(tcKw, EmptyMap) ELSE tcKw
          /\ tcFrames' = IF c.ok
                         THEN Append(tcFrames, Frame("while", FALSE, scopes_,
                                         currentReturnType_, inFunction_))
                         ELSE tcFrames
    /\ UNCHANGED <<functions_, currentReturnType_, inFunction_, stmt,
                   tcCount, tcBefore, tcPopped, tcOuter>>
    /\ UNCHANGED notTcVars

\* checkForStmt up to the first statement of the body: the new scope, the
\* init clause, the condition and the update clause
CheckForStmt ==
    /\ tcPc = "fetched" /\ stmt.kind = "For"
    /\ LET i == checkStatement(stmt.init, enterScope(scopes_), functions_,
                               inFunction_, currentReturnType_)
           c == IF i.ok THEN checkCondition(stmt.condition, i.scopes, functions_)
                ELSE i
           u == IF c.ok THEN checkStatement(stmt.update, c.scopes, functions_,
                                            inFunction_, currentReturnType_)
                ELSE c
       IN /\ Outcome(u)
          /\ tcKw' = IF u.ok
                     THEN LET k == Append(tcKw, EmptyMap)
                          IN IF stmt.init.kind = "Let"
                             THEN KwPut(k, stmt.init.name, stmt.init.kw) ELSE k
                     ELSE tcKw
          /\ tcFrames' = IF u.ok
                         THEN Append(tcFrames, Frame("for", FALSE, scopes_,
                                         currentReturnType_, inFunction_))
                         ELSE tcFrames
    /\ UNCHANGED <<functions_, currentReturnType_, inFunction_, stmt,
                   tcCount, tcBefore, tcPopped, tcOuter>>
    /\ UNCHANGED notTcVars

\* checkFunctionStmt up to the first statement of the body
CheckFunctionStmt ==
    /\ tcPc = "fetched" /\ stmt.kind = "Function"
    /\ functions_' = declareFunction(functions_, stmt.name,
                                     paramTypesOf(stmt.params), stmt.returnType)
    /\ currentReturnType_' = stmt.returnType
    /\ inFunction_' = TRUE
    /\ Outcome(Pass(declareParams(enterScope(scopes_), stmt.params, 1)))
    /\ tcKw' = KwParams(Append(tcKw, EmptyMap), stmt.params, 1)
    /\ tcFrames' = Append(tcFrames, FunctionFrame(stmt, scopes_,
                              currentReturnType_, inFunction_))
    /\ UNCHANGED <<stmt, tcCount, tcBefore, tcPopped, tcOuter>>
    /\ UNCHANGED notTcVars

\* the handler has returned; the loop over the block's statements goes on
Advance ==
    /\ tcPc = "checked"
    /\ tcPc' = "ready"
    /\ stmt' = NoStmt
    /\ tcBefore' = <<>>
    /\ UNCHANGED <<scopes_, functions_, currentReturnType_, inFunction_, tcFrames,
                   tcError, tcCount, tcPopped, tcOuter, tcKw, tcCalls>>
    /\ UNCHANGED notTcVars

BlockEnds(kind) ==
    /\ tcPc = "ready"
    /\ tcFrames # <<>>
    /\ Top(tcFrames).kind = kind
    /\ tcPopped' = scopes_[Len(scopes_)]
    /\ tcOuter' = Top(tcFrames).outer
    /\ UNCHANGED <<functions_, stmt, tcPc, tcError, tcCount, tcBefore, tcCalls>>
    /\ UNCHANGED notTcVars

\* checkIfStmt after the then branch: the else branch, when it holds
\* statements, is checked in a scope of its own
IfThenDone ==
    /\ BlockEnds("then")
    /\ IF Top(tcFrames).hasElse
       THEN /\ scopes_' = enterScope(exitScope(scopes_))
            /\ tcKw' = Append(Pop(tcKw), EmptyMap)
            /\ tcFrames' = [tcFrames EXCEPT ![Len(tcFrames)].kind = "else",
                                            ![Len(tcFrames)].n = 0]
       ELSE /\ scopes_' = exitScope(scopes_)
            /\ tcKw' = Pop(tcKw)
            /\ tcFrames' = Pop(tcFrames)
    /\ UNCHANGED <<currentReturnType_, inFunction_>>

\* checkIfStmt after the else branch
IfElseDone ==
    /\ BlockEnds("else")
    /\ Top(tcFrames).n > 0
    /\ scopes_' = exitScope(scopes_)
    /\ tcKw' = Pop(tcKw)
    /\ tcFrames' = Pop(tcFrames)
    /\ UNCHANGED <<currentReturnType_, inFunction_>>

\* checkWhileStmt after the body
WhileDone ==
    /\ BlockEnds("while")
    /\ scopes_' = exitScope(scopes_)
    /\ tcKw' = Pop(tcKw)
    /\ tcFrames' = Pop(tcFrames)
    /\ UNCHANGED <<currentReturnType_, inFunction_>>

\* checkForStmt after the body
ForDone ==
    /\ BlockEnds("for")
    /\ scopes_' = exitScope(scopes_)
    /\ tcKw' = Pop(tcKw)
    /\ tcFrames' = Pop(tcFrames)
    /\ UNCHANGED <<currentReturnType_, inFunction_>>

\* checkFunctionStmt after the body
FunctionDone ==
    /\ BlockEnds("function")
    /\ scopes_' = exitScope(scopes_)
    /\ tcKw' = Pop(tcKw)
    /\ currentReturnType_' = Top(tcFrames).savedReturnType
    /\ inFunction_' = Top(tcFrames).savedInFunction
    /\ tcFrames' = Pop(tcFrames)

\* TypeChecker::check returns: the program is accepted
CheckReturns ==
    /\ tcPc = "ready"
    /\ tcFrames = <<>>
    /\ tcPc' = "accepted"
    /\ UNCHANGED <<scopes_, functions_, currentReturnType_, inFunction_, stmt,
                   tcFrames, tcError, tcCount, tcBefore, tcPopped, tcOuter, tcKw,
                   tcCalls>>
    /\ UNCHANGED notTcVars

NextTc ==
    \/ Fetch /\ UNCHANGED notTcVars
    \/ CheckLetStmt \/ CheckAssignStmt \/ CheckExprStmt \/ CheckReturnStmt
    \/ CheckOtherStmt \/ CheckIfStmt \/ CheckWhileStmt \/ CheckForStmt
    \/ CheckFunctionStmt \/ Advance
    \/ IfThenDone \/ IfElseDone \/ WhileDone \/ ForDone \/ FunctionDone
    \/ CheckReturns

NextCompat == CallIsCompatible /\ UNCHANGED notCompatVars

-----------------------------------------------------------------------------
(* Tokens (token.hpp) and the expression parser (parser.cpp) *)

\* binary operators one parsed chain holds
MaxOperators == 3

\* a std::string is a sequence of one-character strings
Token(type, value) == [type |-> type, value |-> value]

Digits == <<"0", "1", "2", "3", "4", "5", "6", "7", "8", "9">>

DigitValue(c) == (CHOOSE i \in 1..10 : Digits[i] = c) - 1

RECURSIVE stoll(_, _)
\* std::stoll on a string of decimal digits
stoll(s, acc) ==
    IF s = <<>> THEN acc
    ELSE stoll(Tail(s), acc * 10 + DigitValue(Head(s)))

\* Token::intValue
intValue(tok) == stoll(tok.value, 0)

\* the digits of LLONG_MAX, 9223372036854775807
LLONG_MAX_DIGITS ==
    <<"9", "2", "2", "3", "3", "7", "2", "0", "3", "6", "8", "5", "4", "7", "7",
      "5", "8", "0", "7">>

RECURSIVE StripZeros(_)
StripZeros(s) == IF s # <<>> /\ Head(s) = "0" THEN StripZeros(Tail(s)) ELSE s

RECURSIVE DigitsGreater(_, _)
\* a > b for digit strings of one length
DigitsGreater(a, b) ==
    IF a = <<>> THEN FALSE
    ELSE IF DigitValue(Head(a)) # DigitValue(Head(b))
    THEN DigitValue(Head(a)) > DigitValue(Head(b))
    ELSE DigitsGreater(Tail(a), Tail(b))

\* std::stoll throws std::out_of_range: the value does not fit long long
stollOutOfRange(text) ==
    LET digits == StripZeros(text)
    IN \/ Len(digits) > Len(LLONG_MAX_DIGITS)
       \/ Len(digits) = Len(LLONG_MAX_DIGITS) /\ DigitsGreater(digits, LLONG_MAX_DIGITS)

FloatLit(v) == [kind |-> "Literal", type |-> T("FLOAT"), value |-> v]

precedences ==
    [op \in {"||", "&&", "==", "!=", "<", ">", "<=", ">=", "+", "-", "*", "/", "%"} |->
        CASE op = "||" -> 1
          [] op = "&&" -> 2
          [] op \in {"==", "!="} -> 3
          [] op \in {"<", ">", "<=", ">="} -> 4
          [] op \in {"+", "-"} -> 5
          [] op \in {"*", "/", "%"} -> 6]

getPrecedence(op) == IF op \in DOMAIN precedences THEN precedences[op] ELSE 0

\* current_ counts from 0 in the code; a position pos here is current_ + 1
peek(toks, pos) == toks[pos]

isAtEnd(toks, pos) == peek(toks, pos).type = "END_OF_FILE"

check(toks, pos, type) ==
    IF isAtEnd(toks, pos) THEN FALSE ELSE peek(toks, pos).type = type

\* the position after Parser::advance
advance(toks, pos) == IF ~isAtEnd(toks, pos) THEN pos + 1 ELSE pos

Parsed(node, pos) == [ok |-> TRUE, node |-> node, pos |-> pos]

\* Parser::error thrown at pos
ParseError(message, pos) ==
    [ok |-> FALSE, message |-> message, pos |-> pos, exception |-> "ParseError"]

\* an exception of the standard library thrown at pos
Thrown(exception, pos) ==
    [ok |-> FALSE, message |-> exception, pos |-> pos, exception |-> exception]

\* the switch of parseBinary; "" is its default branch
opStrOf(type) ==
    CASE type = "PLUS" -> "+"
      [] type = "MINUS" -> "-"
      [] type = "STAR" -> "*"
      [] type = "SLASH" -> "/"
      [] type = "PERCENT" -> "%"
      [] type = "EQ" -> "=="
      [] type = "NE" -> "!="
      [] type = "LT" -> "<"
      [] type = "GT" -> ">"
      [] type = "LE" -> "<="
      [] type = "GE" -> ">="
      [] type = "AND" -> "&&"
      [] type = "OR" -> "||"
      [] OTHER -> ""

RECURSIVE parseExpression(_, _), parseBinary(_, _, _), parseBinaryLoop(_, _, _, _),
          parseUnary(_, _), parsePrimary(_, _), parsePostfix(_, _, _),
          parseCall(_, _, _), parseArguments(_, _, _)

parseExpression(toks, pos) == parseBinary(toks, pos, 0)

\* the loop of parseBinary with the test turned into prec < minPrecedence
parseBinaryLoopNoLeftAssoc(toks, left, pos, minPrecedence) ==
    LET op == peek(toks, pos)
        opStr == opStrOf(op.type)
        prec == getPrecedence(opStr)
        right == parseBinary(toks, advance(toks, pos), prec)
    IN IF opStr = "" THEN Parsed(left, pos)
       ELSE IF prec < minPrecedence THEN Parsed(left, pos)
       ELSE IF ~right.ok THEN right
       ELSE parseBinaryLoop(toks, Bin(opStr, left, right.node), right.pos,
                            minPrecedence)

\* the while (true) loop of parseBinary, one iteration
parseBinaryLoop(toks, left, pos, minPrecedence) ==
    LET op == peek(toks, pos)
        opStr == opStrOf(op.type)
        prec == getPrecedence(opStr)
        right == parseBinary(toks, advance(toks, pos), prec)
    IN IF opStr = "" THEN Parsed(left, pos)
       ELSE IF prec <= minPrecedence THEN Parsed(left, pos)
       ELSE IF ~right.ok THEN right
       ELSE parseBinaryLoop(toks, Bin(opStr, left, right.node), right.pos,
                            minPrecedence)

parseBinary(toks, pos, minPrecedence) ==
    LET left == parseUnary(toks, pos)
    IN IF ~left.ok THEN left
       ELSE parseBinaryLoop(toks, left.node, left.pos, minPrecedence)

parseUnary(toks, pos) ==
    LET operand == parseUnary(toks, pos + 1)
        unary(op) == IF ~operand.ok THEN operand
                     ELSE Parsed(Un(op, operand.node), operand.pos)
    IN IF check(toks, pos, "NOT") THEN unary("!")
       ELSE IF check(toks, pos, "MINUS") THEN unary("-")
       ELSE IF check(toks, pos, "TILDE") THEN unary("~")
       ELSE parsePrimary(toks, pos)

\* the member access and call loop that follows an identifier
parsePostfix(toks, expr, pos) ==
    IF check(toks, pos, "DOT") \/ check(toks, pos, "DOUBLE_COLON")
    THEN IF ~check(toks, pos + 1, "IDENTIFIER")
         THEN ParseError("Expected property name", pos + 1)
         ELSE LET member == Member(expr, peek(toks, pos + 1).value)
                  call == parseCall(toks, member, pos + 2)
              IN IF check(toks, pos + 2, "LPAREN")
                 THEN IF ~call.ok THEN call
                      ELSE parsePostfix(toks, call.node, call.pos)
                 ELSE parsePostfix(toks, member, pos + 2)
    ELSE IF check(toks, pos, "LPAREN")
    THEN LET call == parseCall(toks, expr, pos)
         IN IF ~call.ok THEN call ELSE parsePostfix(toks, call.node, call.pos)
    ELSE Parsed(expr, pos)

parsePrimary(toks, pos) ==
    LET tok == peek(toks, pos)
        group == parseExpression(toks, pos + 1)
    IN IF check(toks, pos, "INTEGER")
       THEN IF stollOutOfRange(tok.value) THEN Thrown("std::out_of_range", pos + 1)
            ELSE Parsed(IntLit(intValue(tok)), pos + 1)
       ELSE IF check(toks, pos, "FLOAT") THEN Parsed(FloatLit(tok.value), pos + 1)
       ELSE IF check(toks, pos, "STRING") THEN Parsed(StrLit(tok.value), pos + 1)
       ELSE IF check(toks, pos, "TRUE") THEN Parsed(BoolLit(TRUE), pos + 1)
       ELSE IF check(toks, pos, "FALSE") THEN Parsed(BoolLit(FALSE), pos + 1)
       ELSE IF check(toks, pos, "IDENTIFIER")
       THEN parsePostfix(toks, Id(tok.value), pos + 1)
       ELSE IF check(toks, pos, "LPAREN")
       THEN IF ~group.ok THEN group
            ELSE IF ~check(toks, group.pos, "RPAREN")
            THEN ParseError("Expected ')' after expression", group.pos)
            ELSE Parsed(group.node, group.pos + 1)
       ELSE ParseError("Expected expression", pos)

\* the do/while of parseCall: one argument, then more after each comma
parseArguments(toks, args, pos) ==
    LET arg == parseExpression(toks, pos)
    IN IF ~arg.ok THEN arg
       ELSE IF check(toks, arg.pos, "COMMA")
       THEN parseArguments(toks, Append(args, arg.node), arg.pos + 1)
       ELSE Parsed(Append(args, arg.node), arg.pos)

parseCall(toks, callee, pos) ==
    LET args == IF ~check(toks, pos + 1, "RPAREN")
                THEN parseArguments(toks, <<>>, pos + 1)
                ELSE Parsed(<<>>, pos + 1)
    IN IF ~check(toks, pos, "LPAREN")
       THEN ParseError("Expected '(' for function call", pos)
       ELSE IF ~args.ok THEN args
       ELSE IF ~check(toks, args.pos, "RPAREN")
       THEN ParseError("Expected ')' after arguments", args.pos)
       ELSE Parsed(Call(callee, args.node), args.pos + 1)

\* an operator or delimiter token: Lexer::makeToken(type) stores no text
Punct(type) == Token(type, <<>>)

BinaryTokenTypes ==
    {"PLUS", "MINUS", "STAR", "SLASH", "PERCENT", "EQ", "NE", "LT", "GT", "LE",
     "GE", "AND", "OR"}

\* the forms an operand of a parsed chain takes
ParShapes == {"plain", "unary", "group", "call"}

OperandName(i) == <<"x", Digits[i + 1]>>

Ident(name) == Token("IDENTIFIER", name)

\* the tokens of the i-th operand: xi, !-xi, (xi || 7), io.f(xi, xi + 42)
OperandTokens(shape, i) ==
    LET x == Ident(OperandName(i))
    IN CASE shape = "plain" -> <<x>>
         [] shape = "unary" -> <<Punct("NOT"), Punct("MINUS"), x>>
         [] shape = "group" ->
              <<Punct("LPAREN"), x, Punct("OR"), Token("INTEGER", <<"7">>),
                Punct("RPAREN")>>
         [] shape = "call" ->
              <<Ident(<<"i", "o">>), Punct("DOT"), Ident(<<"f">>), Punct("LPAREN"),
                x, Punct("COMMA"), x, Punct("PLUS"), Token("INTEGER", <<"4", "2">>),
                Punct("RPAREN")>>

RECURSIVE ChainTokens(_, _, _)
\* operand i, then each later operator with its operand, then END_OF_FILE
ChainTokens(shape, ops, i) ==
    OperandTokens(shape, i) \o
        (IF i > Len(ops) THEN <<Punct("END_OF_FILE")>>
         ELSE <<Punct(ops[i])>> \o ChainTokens(shape, ops, i + 1))

NoParse == [ok |-> FALSE, message |-> "", pos |-> 0]

IdlePar ==
    /\ tokens_ = <<>>
    /\ current_ = 0
    /\ parPc = "idle"
    /\ parsed = NoParse
    /\ parOps = <<>>
    /\ parShape = "plain"
    /\ parPlain = <<>>

\* Parser::Parser on the tokens of one expression
InitPar ==
    /\ parOps \in UNION {[1..n -> BinaryTokenTypes] : n \in 1..MaxOperators}
    /\ parShape \in ParShapes
    /\ tokens_ = ChainTokens(parShape, parOps, 1)
    /\ current_ = 0
    /\ parPc = "ready"
    /\ parsed = NoParse
    /\ parPlain = <<>>

\* Parser::parseExpression
ParseExpression ==
    /\ parPc = "ready"
    /\ LET r == parseExpression(tokens_, current_ + 1)
       IN /\ parsed' = r
          /\ current_' = r.pos - 1
    /\ parPc' = "done"
    /\ UNCHANGED <<tokens_, parOps, parShape, parPlain>>
    /\ UNCHANGED notParVars

NextPar == ParseExpression

-----------------------------------------------------------------------------
(* The statement parser (parser.cpp) *)

\* statements in the one block of a parsed program
MaxBlockStmts == 2

ImportStmt(name, module) == [kind |-> "Import", name |-> name, module |-> module]

\* struct FunctionStmt with its body
FunctionDecl(name, params, returnType, body) ==
    [kind |-> "Function", name |-> name, params |-> params,
     returnType |-> returnType, body |-> body]

\* the position after Parser::match
match(toks, pos, type) == IF check(toks, pos, type) THEN pos + 1 ELSE pos

\* Parser::consume: the token consumed, or the error thrown
consume(toks, pos, type, message) ==
    IF check(toks, pos, type) THEN Parsed(peek(toks, pos), pos + 1)
    ELSE ParseError(message, pos)

RECURSIVE consumeEach(_, _, _)
\* consume after consume: expected holds <<type, message>> pairs
consumeEach(toks, pos, expected) ==
    IF expected = <<>> THEN Parsed(<<>>, pos)
    ELSE LET c == consume(toks, pos, expected[1][1], expected[1][2])
         IN IF ~c.ok THEN c ELSE consumeEach(toks, c.pos, Tail(expected))

\* TypeInfo::fromString
fromString(typeName) ==
    LET isOptional == typeName # <<>> /\ typeName[Len(typeName)] = "?"
        name == IF isOptional THEN SubSeq(typeName, 1, Len(typeName) - 1)
                ELSE typeName
    IN [primitive |->
            CASE name \in {<<"i", "n", "t">>, <<"i", "3", "2">>, <<"i", "6", "4">>} -> "INT"
              [] name \in {<<"f", "l", "o", "a", "t">>, <<"f", "3", "2">>,
                           <<"f", "6", "4">>} -> "FLOAT"
              [] name = <<"b", "o", "o", "l">> -> "BOOL"
              [] name = <<"c", "h", "a", "r">> -> "CHAR"
              [] name = <<"s", "t", "r", "i", "n", "g">> -> "STRING"
              [] name = <<"v", "o", "i", "d">> -> "VOID"
              [] OTHER -> "ANY",
        isOptional |-> isOptional]

\* Parser::parseType
parseType(toks, pos) ==
    LET type(typeName) == Parsed(fromString(typeName), pos + 1)
    IN IF check(toks, pos, "TYPE_INT") THEN type(<<"i", "n", "t">>)
       ELSE IF check(toks, pos, "TYPE_FLOAT") THEN type(<<"f", "l", "o", "a", "t">>)
       ELSE IF check(toks, pos, "TYPE_BOOL") THEN type(<<"b", "o", "o", "l">>)
       ELSE IF check(toks, pos, "TYPE_CHAR") THEN type(<<"c", "h", "a", "r">>)
       ELSE IF check(toks, pos, "TYPE_STRING")
       THEN type(<<"s", "t", "r", "i", "n", "g">>)
       ELSE IF check(toks, pos, "TYPE_VOID") THEN type(<<"v", "o", "i", "d">>)
       ELSE IF check(toks, pos, "TYPE_ANY") THEN type(<<"a", "n", "y">>)
       ELSE IF check(toks, pos, "IDENTIFIER") THEN type(peek(toks, pos).value)
       ELSE ParseError("Expected type", pos)

\* what follows a call that returned r: the exception r carries leaves the
\* caller at once, a result goes on to the rest of the caller
Bind(r, rest(_)) == IF ~r.ok THEN r ELSE rest(r)

RECURSIVE parseStatement(_, _), parseBody(_, _, _), parseBlock(_, _, _),
          parseIfStatement(_, _), parseWhileStatement(_, _),
          parseForStatement(_, _), parseFunctionStatement(_, _),
          parseParams(_, _, _), parseModule(_, _, _)

\* module, then ::identifier as long as :: follows
parseModule(toks, pos, module) ==
    IF check(toks, pos, "DOUBLE_COLON")
    THEN LET part == consume(toks, pos + 1, "IDENTIFIER",
                             "Expected identifier after '::'")
         IN IF ~part.ok THEN part
            ELSE parseModule(toks, part.pos, module \o <<":", ":">> \o part.node.value)
    ELSE Parsed(module, pos)

parseImportStatement(toks, pos) ==
    LET kw == consume(toks, pos, "IMPORT", "Expected 'import'")
        name == consume(toks, kw.pos, "IDENTIFIER", "Expected identifier after 'import'")
        from == consume(toks, name.pos, "FROM", "Expected 'from' after identifier")
        first == consume(toks, from.pos, "IDENTIFIER", "Expected module name")
        module == parseModule(toks, first.pos, first.node.value)
    IN IF ~kw.ok THEN kw
       ELSE IF ~name.ok THEN name
       ELSE IF ~from.ok THEN from
       ELSE IF ~first.ok THEN first
       ELSE IF ~module.ok THEN module
       ELSE Parsed(ImportStmt(name.node.value, module.node), module.pos)

parseLetStatement(toks, pos) ==
    LET kw == IF check(toks, pos, "VAR") THEN Parsed("var", pos + 1)
              ELSE IF check(toks, pos, "LET") THEN Parsed("let", pos + 1)
              ELSE IF check(toks, pos, "CONST") THEN Parsed("const", pos + 1)
              ELSE ParseError("Expected 'let', 'const', or 'var'", pos)
        name == consume(toks, kw.pos, "IDENTIFIER", "Expected variable name")
        colon == consume(toks, name.pos, "COLON", "Expected ':' after variable name")
        type == parseType(toks, colon.pos)
        assign == consume(toks, type.pos, "ASSIGN", "Expected '=' after type")
    IN IF ~kw.ok THEN kw
       ELSE IF ~name.ok THEN name
       ELSE IF ~colon.ok THEN colon
       ELSE IF ~type.ok THEN type
       ELSE IF ~assign.ok THEN assign
       ELSE Bind(parseExpression(toks, assign.pos), LAMBDA value :
            Parsed(LetStmt(kw.node, name.node.value, type.node, value.node),
                   value.pos))

\* while (!check(RBRACE) && !isAtEnd()) body.push_back(parseStatement())
parseBody(toks, pos, body) ==
    IF ~check(toks, pos, "RBRACE") /\ ~isAtEnd(toks, pos)
    THEN Bind(parseStatement(toks, pos),
              LAMBDA s : parseBody(toks, s.pos, Append(body, s.node)))
    ELSE Parsed(body, pos)

\* the statements of a block and the } that ends it
parseBlock(toks, pos, message) ==
    Bind(parseBody(toks, pos, <<>>), LAMBDA body :
    Bind(consume(toks, body.pos, "RBRACE", message), LAMBDA brace :
    Parsed(body.node, brace.pos)))

\* the do/while over the parameters of parseFunctionStatement
parseParams(toks, pos, params) ==
    LET name == consume(toks, pos, "IDENTIFIER", "Expected parameter name")
        colon == consume(toks, name.pos, "COLON", "Expected ':' after parameter name")
        type == parseType(toks, colon.pos)
        more == Append(params, Param(name.node.value, type.node))
    IN IF ~name.ok THEN name
       ELSE IF ~colon.ok THEN colon
       ELSE IF ~type.ok THEN type
       ELSE IF check(toks, type.pos, "COMMA") THEN parseParams(toks, type.pos + 1, more)
       ELSE Parsed(more, type.pos)

parseFunctionStatement(toks, pos) ==
    LET kw == consume(toks, pos, "FUNC", "Expected 'func'")
        name == consume(toks, kw.pos, "IDENTIFIER", "Expected function name")
        paren == consume(toks, name.pos, "LPAREN", "Expected '(' after function name")
        params == IF ~check(toks, paren.pos, "RPAREN")
                  THEN parseParams(toks, paren.pos, <<>>)
                  ELSE Parsed(<<>>, paren.pos)
        arrow == consumeEach(toks, params.pos,
                     <<(<<"RPAREN", "Expected ')' after parameters">>),
                       (<<"ARROW", "Expected '=>' after parameters">>)>>)
        returnType == parseType(toks, arrow.pos)
        brace == consume(toks, returnType.pos, "LBRACE",
                         "Expected '{' before function body")
    IN IF ~kw.ok THEN kw
       ELSE IF ~name.ok THEN name
       ELSE IF ~paren.ok THEN paren
       ELSE IF ~params.ok THEN params
       ELSE IF ~arrow.ok THEN arrow
       ELSE IF ~returnType.ok THEN returnType
       ELSE IF ~brace.ok THEN brace
       ELSE Bind(parseBlock(toks, brace.pos, "Expected '}' after function body"),
                 LAMBDA body :
            Parsed(FunctionDecl(name.node.value, params.node, returnType.node,
                                body.node), body.pos))

parseIfStatement(toks, pos) ==
    Bind(consumeEach(toks, pos,
             <<(<<"IF", "Expected 'if'">>),
               (<<"LPAREN", "Expected '(' after 'if'">>)>>), LAMBDA open :
    Bind(parseExpression(toks, open.pos), LAMBDA condition :
    Bind(consumeEach(toks, condition.pos,
             <<(<<"RPAREN", "Expected ')' after condition">>),
               (<<"LBRACE", "Expected '{' after condition">>)>>), LAMBDA brace :
    Bind(parseBlock(toks, brace.pos, "Expected '}' after then branch"),
         LAMBDA thenBranch :
    Bind(IF check(toks, thenBranch.pos, "ELSE")
         THEN IF check(toks, thenBranch.pos + 1, "IF")
              THEN Bind(parseIfStatement(toks, thenBranch.pos + 1), LAMBDA elseIf :
                   Parsed(<<elseIf.node>>, elseIf.pos))
              ELSE Bind(consume(toks, thenBranch.pos + 1, "LBRACE",
                                "Expected '{' after 'else'"), LAMBDA elseBrace :
                   parseBlock(toks, elseBrace.pos, "Expected '}' after else branch"))
         ELSE Parsed(<<>>, thenBranch.pos), LAMBDA elseBranch :
    Parsed(IfElse(condition.node, thenBranch.node, elseBranch.node),
           elseBranch.pos))))))

parseWhileStatement(toks, pos) ==
    Bind(consumeEach(toks, pos,
             <<(<<"WHILE", "Expected 'while'">>),
               (<<"LPAREN", "Expected '(' after 'while'">>)>>), LAMBDA open :
    Bind(parseExpression(toks, open.pos), LAMBDA condition :
    Bind(consumeEach(toks, condition.pos,
             <<(<<"RPAREN", "Expected ')' after condition">>),
               (<<"LBRACE", "Expected '{' after condition">>)>>), LAMBDA brace :
    Bind(parseBlock(toks, brace.pos, "Expected '}' after while body"), LAMBDA body :
    Parsed(WhileLoop(condition.node, body.node), body.pos)))))

parseForStatement(toks, pos) ==
    Bind(consumeEach(toks, pos,
             <<(<<"FOR", "Expected 'for'">>),
               (<<"LPAREN", "Expected '(' after 'for'">>)>>), LAMBDA open :
    Bind(parseStatement(toks, open.pos), LAMBDA init :
    Bind(parseExpression(toks, match(toks, init.pos, "SEMICOLON")),
         LAMBDA condition :
    Bind(parseStatement(toks, match(toks, condition.pos, "SEMICOLON")),
         LAMBDA update :
    Bind(consumeEach(toks, update.pos,
             <<(<<"RPAREN", "Expected ')' after for clauses">>),
               (<<"LBRACE", "Expected '{' after for clauses">>)>>), LAMBDA brace :
    Bind(parseBlock(toks, brace.pos, "Expected '}' after for body"), LAMBDA body :
    Parsed(ForLoop(init.node, condition.node, update.node, body.node),
           body.pos)))))))

parseReturnStatement(toks, pos) ==
    Bind(consume(toks, pos, "RETURN", "Expected 'return'"), LAMBDA kw :
    IF ~check(toks, kw.pos, "RBRACE") /\ ~isAtEnd(toks, kw.pos)
    THEN Bind(parseExpression(toks, kw.pos), LAMBDA value :
         Parsed(ReturnStmt(value.node), value.pos))
    ELSE Parsed(ReturnStmt(NoExpr), kw.pos))

parseExpressionStatement(toks, pos) ==
    Bind(parseExpression(toks, pos), LAMBDA expr :
    IF check(toks, expr.pos, "ASSIGN")
    THEN IF expr.node.kind = "Identifier"
         THEN Bind(parseExpression(toks, expr.pos + 1), LAMBDA value :
              Parsed(AssignStmt(expr.node.name, value.node), value.pos))
         ELSE ParseError("Invalid assignment target", expr.pos)
    ELSE Parsed(ExprStmt(expr.node), expr.pos))

parseStatement(toks, pos) ==
    IF check(toks, pos, "IMPORT") THEN parseImportStatement(toks, pos)
    ELSE IF check(toks, pos, "LET") \/ check(toks, pos, "CONST")
            \/ check(toks, pos, "VAR")
    THEN parseLetStatement(toks, pos)
    ELSE IF check(toks, pos, "FUNC") THEN parseFunctionStatement(toks, pos)
    ELSE IF check(toks, pos, "IF") THEN parseIfStatement(toks, pos)
    ELSE IF check(toks, pos, "WHILE") THEN parseWhileStatement(toks, pos)
    ELSE IF check(toks, pos, "FOR") THEN parseForStatement(toks, pos)
    ELSE IF check(toks, pos, "RETURN") THEN parseReturnStatement(toks, pos)
    ELSE IF check(toks, pos, "BREAK") THEN Parsed(OtherStmt("Break"), pos + 1)
    ELSE IF check(toks, pos, "CONTINUE") THEN Parsed(OtherStmt("Continue"), pos + 1)
    ELSE parseExpressionStatement(toks, pos)

RECURSIVE parse(_, _, _)
\* Parser::parse: while (!isAtEnd()) statements.push_back(parseStatement())
parse(toks, pos, statements) ==
    IF ~isAtEnd(toks, pos)
    THEN Bind(parseStatement(toks, pos),
              LAMBDA s : parse(toks, s.pos, Append(statements, s.node)))
    ELSE Parsed(statements, pos)

-----------------------------------------------------------------------------
(* The lexer (lexer.cpp) *)

\* bytes one scanned source holds
MaxSource == 3

\* a byte above 0x7F: as a plain char its value is negative
HighByte == "0xC3"

\* what peek returns at the end of the source
NUL == "0x00"

\* the bytes sources are made of: one or two of each kind nextToken tells
\* apart
LexAlphabet ==
    {" ", "\n", "/", "\"", "\\", "1", ".", "a", "i", "f", "=", "&", "#", HighByte}

Letters ==
    {"a", "b", "c", "d", "e", "f", "g", "h", "i", "j", "k", "l", "m", "n", "o",
     "p", "q", "r", "s", "t", "u", "v", "w", "x", "y", "z",
     "A", "B", "C", "D", "E", "F", "G", "H", "I", "J", "K", "L", "M", "N", "O",
     "P", "Q", "R", "S", "T", "U", "V", "W", "X", "Y", "Z"}

\* <cctype> takes an int that is an unsigned char value or EOF and leaves
\* every other argument undefined; the lexer passes a plain char.  For
\* HighByte a call answers as the table entry it happens to read says, or
\* the C runtime stops the process (ctypeHigh).
ctypeAborts(c) == c = HighByte /\ ctypeHigh = "abort"

isdigit(c) ==
    IF c = HighByte THEN ctypeHigh = "digit"
    ELSE \E i \in 1..Len(Digits) : Digits[i] = c

isalpha(c) == IF c = HighByte THEN ctypeHigh = "alpha" ELSE c \in Letters

isalnum(c) == isalpha(c) \/ isdigit(c)

keywords ==
    <<"l", "e", "t">> :> "LET" @@ <<"c", "o", "n", "s", "t">> :> "CONST" @@
    <<"v", "a", "r">> :> "VAR" @@ <<"f", "u", "n", "c">> :> "FUNC" @@
    <<"r", "e", "t", "u", "r", "n">> :> "RETURN" @@ <<"i", "f">> :> "IF" @@
    <<"e", "l", "s", "e">> :> "ELSE" @@ <<"w", "h", "i", "l", "e">> :> "WHILE" @@
    <<"f", "o", "r">> :> "FOR" @@ <<"b", "r", "e", "a", "k">> :> "BREAK" @@
    <<"c", "o", "n", "t", "i", "n", "u", "e">> :> "CONTINUE" @@
    <<"i", "m", "p", "o", "r", "t">> :> "IMPORT" @@ <<"f", "r", "o", "m">> :> "FROM" @@
    <<"t", "r", "u", "e">> :> "TRUE" @@ <<"f", "a", "l", "s", "e">> :> "FALSE" @@
    <<"i", "n", "t">> :> "TYPE_INT" @@ <<"f", "l", "o", "a", "t">> :> "TYPE_FLOAT" @@
    <<"b", "o", "o", "l">> :> "TYPE_BOOL" @@ <<"c", "h", "a", "r">> :> "TYPE_CHAR" @@
    <<"s", "t", "r", "i", "n", "g">> :> "TYPE_STRING" @@
    <<"v", "o", "i", "d">> :> "TYPE_VOID" @@ <<"a", "n", "y">> :> "TYPE_ANY"

identifierType(identifier) ==
    IF identifier \in DOMAIN keywords THEN keywords[identifier] ELSE "IDENTIFIER"

\* the scanning position: pos_, line_, column_
LexAt(pos, line, column) == [pos |-> pos, line |-> line, column |-> column]

lexIsAtEnd(src, at) == at.pos >= Len(src)

lexPeek(src, at) == IF lexIsAtEnd(src, at) THEN NUL ELSE src[at.pos + 1]

lexPeekNext(src, at) == IF at.pos + 1 >= Len(src) THEN NUL ELSE src[at.pos + 2]

\* an advance that starts the column again without counting the line
lexAdvanceKeepLine(src, at) ==
    IF src[at.pos + 1] = "\n" THEN LexAt(at.pos + 1, at.line, 1)
    ELSE LexAt(at.pos + 1, at.line, at.column + 1)

\* the position after Lexer::advance
lexAdvance(src, at) ==
    IF src[at.pos + 1] = "\n" THEN LexAt(at.pos + 1, at.line + 1, 1)
    ELSE LexAt(at.pos + 1, at.line, at.column + 1)

RECURSIVE skipComment(_, _)
skipComment(src, at) ==
    IF ~lexIsAtEnd(src, at) /\ lexPeek(src, at) # "\n"
    THEN skipComment(src, lexAdvance(src, at))
    ELSE at

RECURSIVE skipWhitespace(_, _)
skipWhitespace(src, at) ==
    IF lexIsAtEnd(src, at) THEN at
    ELSE IF lexPeek(src, at) \in {" ", "\t", "\r", "\n"}
    THEN skipWhitespace(src, lexAdvance(src, at))
    ELSE IF lexPeek(src, at) = "/" /\ lexPeekNext(src, at) = "/"
    THEN skipWhitespace(src, skipComment(src, at))
    ELSE at

\* start is the position of the token: tokenLine_, tokenColumn_
makeToken(type, value, start) ==
    [type |-> type, value |-> value,
     location |-> [line |-> start.line, column |-> start.column]]

errorToken(message, start) == makeToken("ERROR", message, start)

\* nextToken returned token with the lexer at position at
Scanned(token, at, start) ==
    [aborted |-> FALSE, token |-> token, at |-> at, start |-> start]

\* the process stopped inside nextToken
Aborted(at, start) ==
    [aborted |-> TRUE, token |-> makeToken("ERROR", <<>>, start), at |-> at,
     start |-> start]

\* the switch on the escaped character in scanString
Unescape(escaped) ==
    CASE escaped = "n" -> "\n"
      [] escaped = "t" -> "\t"
      [] escaped = "r" -> "\r"
      [] OTHER -> escaped

RECURSIVE scanStringLoop(_, _, _, _)
scanStringLoop(src, at, value, start) ==
    LET afterSlash == lexAdvance(src, at)
        closing ==
            IF lexIsAtEnd(src, at)
            THEN Scanned(errorToken(<<"Unterminated string">>, start), at, start)
            ELSE Scanned(makeToken("STRING", value, start), lexAdvance(src, at),
                         start)
    IN IF ~lexIsAtEnd(src, at) /\ lexPeek(src, at) # "\""
       THEN IF lexPeek(src, at) = "\\"
            THEN IF lexIsAtEnd(src, afterSlash)
                 THEN Scanned(errorToken(<<"Unterminated string">>, start),
                              afterSlash, start)
                 ELSE scanStringLoop(src, lexAdvance(src, afterSlash),
                          Append(value, Unescape(lexPeek(src, afterSlash))), start)
            ELSE scanStringLoop(src, lexAdvance(src, at),
                                Append(value, lexPeek(src, at)), start)
       ELSE closing

scanString(src, at, start) == scanStringLoop(src, lexAdvance(src, at), <<>>, start)

RECURSIVE scanNumberLoop(_, _, _, _, _)
scanNumberLoop(src, at, value, isFloat, start) ==
    LET c == lexPeek(src, at)
        done == Scanned(makeToken(IF isFloat THEN "FLOAT" ELSE "INTEGER", value,
                                  start), at, start)
    IN IF lexIsAtEnd(src, at) THEN done
       ELSE IF ctypeAborts(c) THEN Aborted(at, start)
       ELSE IF isdigit(c) \/ c = "."
       THEN IF c = "." /\ isFloat THEN done
            ELSE scanNumberLoop(src, lexAdvance(src, at), Append(value, c),
                                isFloat \/ c = ".", start)
       ELSE done

scanNumber(src, at, start) == scanNumberLoop(src, at, <<>>, FALSE, start)

RECURSIVE scanIdentifierLoop(_, _, _, _)
scanIdentifierLoop(src, at, value, start) ==
    LET c == lexPeek(src, at)
    IN IF lexIsAtEnd(src, at)
       THEN Scanned(makeToken(identifierType(value), value, start), at, start)
       ELSE IF ctypeAborts(c) THEN Aborted(at, start)
       ELSE IF isalnum(c) \/ c = "_"
       THEN scanIdentifierLoop(src, lexAdvance(src, at), Append(value, c), start)
       ELSE Scanned(makeToken(identifierType(value), value, start), at, start)

scanIdentifier(src, at, start) == scanIdentifierLoop(src, at, <<>>, start)

\* the cases of nextToken's switch that make one token whatever follows
SingleCharTokens ==
    "(" :> "LPAREN" @@ ")" :> "RPAREN" @@ "{" :> "LBRACE" @@ "}" :> "RBRACE" @@
    "[" :> "LBRACKET" @@ "]" :> "RBRACKET" @@ "," :> "COMMA" @@
    ";" :> "SEMICOLON" @@ "." :> "DOT" @@ "+" :> "PLUS" @@ "-" :> "MINUS" @@
    "*" :> "STAR" @@ "/" :> "SLASH" @@ "%" :> "PERCENT" @@ "~" :> "TILDE"

\* the switch of nextToken; at is the position after c
scanOperator(src, c, at, start) ==
    LET one(type) == Scanned(makeToken(type, <<>>, start), at, start)
        two(type) == Scanned(makeToken(type, <<>>, start), lexAdvance(src, at), start)
        next == lexPeek(src, at)
        unexpected ==
            Scanned(errorToken(<<"Unexpected character '", c, "'">>, start), at, start)
    IN IF c \in DOMAIN SingleCharTokens THEN one(SingleCharTokens[c])
       ELSE CASE c = ":" -> IF next = ":" THEN two("DOUBLE_COLON") ELSE one("COLON")
              [] c = "=" -> IF next = "=" THEN two("EQ")
                            ELSE IF next = ">" THEN two("ARROW")
                            ELSE one("ASSIGN")
              [] c = "!" -> IF next = "=" THEN two("NE") ELSE one("NOT")
              [] c = "<" -> IF next = "=" THEN two("LE") ELSE one("LT")
              [] c = ">" -> IF next = "=" THEN two("GE") ELSE one("GT")
              [] c = "&" -> IF next = "&" THEN two("AND") ELSE unexpected
              [] c = "|" -> IF next = "|" THEN two("OR") ELSE unexpected
              [] OTHER -> unexpected

nextToken(src, from) ==
    LET start == skipWhitespace(src, from)
        c == lexPeek(src, start)
    IN IF lexIsAtEnd(src, start)
       THEN Scanned(makeToken("END_OF_FILE", <<>>, start), start, start)
       ELSE IF c = "\"" THEN scanString(src, start, start)
       ELSE IF ctypeAborts(c) THEN Aborted(start, start)
       ELSE IF isdigit(c) THEN scanNumber(src, start, start)
       ELSE IF isalpha(c) \/ c = "_" THEN scanIdentifier(src, start, start)
       ELSE scanOperator(src, c, lexAdvance(src, start), start)

RECURSIVE Sources(_)
\* the byte strings of length n
Sources(n) ==
    IF n = 0 THEN {<<>>}
    ELSE {Append(s, c) : s \in Sources(n - 1), c \in LexAlphabet}

HasHighByte(src) == \E i \in 1..Len(src) : src[i] = HighByte

IdleLex ==
    /\ source_ = <<>>
    /\ pos_ = 0
    /\ line_ = 1
    /\ column_ = 1
    /\ tokenStart_ = 0
    /\ tokenLine_ = 1
    /\ tokenColumn_ = 1
    /\ tokens = <<>>
    /\ lexPc = "idle"
    /\ ctypeHigh = "neither"

\* Lexer::Lexer, and tokenize entered
InitLex ==
    /\ source_ \in UNION {Sources(n) : n \in 0..MaxSource}
    /\ pos_ = 0
    /\ line_ = 1
    /\ column_ = 1
    /\ tokenStart_ = 0
    /\ tokenLine_ = 1
    /\ tokenColumn_ = 1
    /\ tokens = <<>>
    /\ lexPc = "running"
    /\ ctypeHigh \in IF HasHighByte(source_)
                     THEN {"neither", "digit", "alpha", "abort"}
                     ELSE {"neither"}

\* one round of the do/while of Lexer::tokenize
NextToken ==
    /\ lexPc = "running"
    /\ LET r == nextToken(source_, LexAt(pos_, line_, column_))
       IN /\ pos_' = r.at.pos
          /\ line_' = r.at.line
          /\ column_' = r.at.column
          /\ tokenStart_' = r.start.pos
          /\ tokenLine_' = r.start.line
          /\ tokenColumn_' = r.start.column
          /\ tokens' = IF r.aborted THEN tokens ELSE Append(tokens, r.token)
          /\ lexPc' = IF r.aborted THEN "aborted"
                      ELSE IF r.token.type \in {"END_OF_FILE", "ERROR"} THEN "returned"
                      ELSE "running"
    /\ UNCHANGED <<source_, ctypeHigh>>
    /\ UNCHANGED notLexVars

NextLex == NextToken

-----------------------------------------------------------------------------
(* Parser::parse on the tokens of a program *)

\* the token scanIdentifier makes of a word
Word(text) == Token(identifierType(text), text)

\* statements a block can hold before its last one
ParFirstStmts ==
    {<<Word(<<"l", "e", "t">>), Word(<<"x">>), Punct("COLON"),
       Word(<<"i", "n", "t">>), Punct("ASSIGN"), Token("INTEGER", <<"1">>)>>,
     <<Word(<<"x">>), Punct("ASSIGN"), Token("INTEGER", <<"2">>)>>,
     <<Word(<<"i", "o">>), Punct("DOT"), Word(<<"p", "r", "i", "n", "t">>),
       Punct("LPAREN"), Word(<<"x">>), Punct("RPAREN")>>,
     <<Word(<<"b", "r", "e", "a", "k">>)>>,
     <<Word(<<"w", "h", "i", "l", "e">>), Punct("LPAREN"), Word(<<"x">>),
       Punct("RPAREN"), Punct("LBRACE"), Word(<<"b", "r", "e", "a", "k">>),
       Punct("RBRACE")>>}

\* statements a block can end with
ParLastStmts ==
    ParFirstStmts
    \cup {<<Word(<<"r", "e", "t", "u", "r", "n">>)>>,
          <<Word(<<"r", "e", "t", "u", "r", "n">>), Word(<<"x">>)>>}

\* where the statements stand: at top level, or in the block of a statement
ParBlocks == {"top", "while", "then", "else", "func"}

RECURSIVE StmtTokens(_, _, _)
\* the statements from the i-th on, a SEMICOLON after the semi-th
StmtTokens(stmts, semi, i) ==
    IF i > Len(stmts) THEN <<>>
    ELSE stmts[i] \o (IF i = semi THEN <<Punct("SEMICOLON")>> ELSE <<>>)
         \o StmtTokens(stmts, semi, i + 1)

ProgramTokens(block, stmts, semi) ==
    LET body == StmtTokens(stmts, semi, 1)
        condition == <<Punct("LPAREN"), Word(<<"x">>), Punct("RPAREN")>>
    IN (CASE block = "top" -> body
          [] block = "while" ->
               <<Word(<<"w", "h", "i", "l", "e">>)>> \o condition
               \o <<Punct("LBRACE")>> \o body \o <<Punct("RBRACE")>>
          [] block = "then" ->
               <<Word(<<"i", "f">>)>> \o condition
               \o <<Punct("LBRACE")>> \o body \o <<Punct("RBRACE")>>
          [] block = "else" ->
               <<Word(<<"i", "f">>)>> \o condition
               \o <<Punct("LBRACE"), Punct("RBRACE"), Word(<<"e", "l", "s", "e">>),
                    Punct("LBRACE")>> \o body \o <<Punct("RBRACE")>>
          [] block = "func" ->
               <<Word(<<"f", "u", "n", "c">>), Word(<<"f">>), Punct("LPAREN"),
                 Punct("RPAREN"), Punct("ARROW"), Word(<<"i", "n", "t">>),
                 Punct("LBRACE")>> \o body \o <<Punct("RBRACE")>>)
       \o <<Punct("END_OF_FILE")>>

\* Parser::Parser on the tokens of a program of 2..MaxBlockStmts statements
\* in one block, with a semicolon after one of them but the last, or none
InitProgram ==
    /\ parShape \in ParBlocks
    /\ \E n \in 2..MaxBlockStmts :
          \E first \in [1..(n - 1) -> ParFirstStmts], last \in ParLastStmts,
             semi \in 0..(n - 1) :
                /\ tokens_ = ProgramTokens(parShape, Append(first, last), semi)
                /\ parPlain = ProgramTokens(parShape, Append(first, last), 0)
    /\ parOps = <<>>
    /\ current_ = 0
    /\ parPc = "ready"
    /\ parsed = NoParse

\* Parser::parse
Parse ==
    /\ parPc = "ready"
    /\ LET r == parse(tokens_, current_ + 1, <<>>)
       IN /\ parsed' = r
          /\ current_' = r.pos - 1
    /\ parPc' = "done"
    /\ UNCHANGED <<tokens_, parOps, parShape, parPlain>>
    /\ UNCHANGED notParVars

NextProgram == Parse

-----------------------------------------------------------------------------
(* Parser::parse statement by statement, on token lists cut short *)

\* an integer literal one digit longer than LLONG_MAX
LongInteger == Token("INTEGER", LLONG_MAX_DIGITS \o <<"0">>)

\* statements beside those of ParLastStmts: a call with a grouped argument,
\* a declaration whose value is the long literal
CursorStmts ==
    {<<Word(<<"f">>), Punct("LPAREN"), Token("INTEGER", <<"1">>), Punct("COMMA"),
       Punct("LPAREN"), Word(<<"x">>), Punct("PLUS"), Token("INTEGER", <<"2">>),
       Punct("RPAREN"), Punct("RPAREN")>>,
     <<Word(<<"l", "e", "t">>), Word(<<"x">>), Punct("COLON"),
       Word(<<"i", "n", "t">>), Punct("ASSIGN"), LongInteger>>}

\* the programs whose token lists are cut: two statements in one block
CursorPrograms ==
    {ProgramTokens(block, <<first, last>>, semi) :
        block \in ParBlocks, first \in ParFirstStmts,
        last \in ParLastStmts \cup CursorStmts, semi \in 0..1}

\* what Lexer::tokenize ends a token list with
EndTokens == {Punct("END_OF_FILE"), Token("ERROR", <<>>)}

\* Parser::Parser on the first tokens of a program, END_OF_FILE or ERROR
\* after them
InitCursor ==
    /\ \E program \in CursorPrograms :
          \E n \in 0..(Len(program) - 1), end \in EndTokens :
             tokens_ = Append(SubSeq(program, 1, n), end)
    /\ parShape = "plain"
    /\ parPlain = <<>>
    /\ parOps = <<>>
    /\ current_ = 0
    /\ parPc = "ready"
    /\ parsed = Parsed(<<>>, 1)

\* one turn of the loop of Parser::parse: statements.push_back(parseStatement()),
\* or the exception of parseStatement leaves parse
ParseStatement ==
    /\ parPc = "ready"
    /\ ~isAtEnd(tokens_, current_ + 1)
    /\ \E r \in {parseStatement(tokens_, current_ + 1)} :
          /\ parsed' = IF r.ok THEN Parsed(Append(parsed.node, r.node), r.pos) ELSE r
          /\ current_' = r.pos - 1
          /\ parPc' = IF r.ok THEN "ready" ELSE "threw"
    /\ UNCHANGED <<tokens_, parOps, parShape, parPlain>>
    /\ UNCHANGED notParVars

\* isAtEnd(): parse returns the statements
ParseReturns ==
    /\ parPc = "ready"
    /\ isAtEnd(tokens_, current_ + 1)
    /\ parPc' = "done"
    /\ UNCHANGED <<tokens_, current_, parsed, parOps, parShape, parPlain>>
    /\ UNCHANGED notParVars

NextCursor == ParseStatement \/ ParseReturns

-----------------------------------------------------------------------------
(* The code generator (codegen.cpp), as built for Linux and macOS *)

\* the lines of output_: labels, comments and instructions.  An operand is a
\* register name, an immediate, a frame offset (load, store), a label
\* (jz, jnz, jmp, lea) or a routine name (call).
LabelLine(label) == [op |-> "label", a |-> label, b |-> ""]
CommentLine(comment) == [op |-> "comment", a |-> comment, b |-> ""]
Ins(op, a, b) == [op |-> op, a |-> a, b |-> b]

\* the text prefix + sep + n of a label
LabelText(prefix, sep, n) == [prefix |-> prefix, sep |-> sep, n |-> n]

\* struct Variable
Variable(stackOffset, type, mutable_) ==
    [stackOffset |-> stackOffset, type |-> type, mutable_ |-> mutable_]

\* the members of CodeGenerator a generate* function reads and writes, with
\* the record of what it emitted: loops (the labels of the open loops,
\* innermost last), jumps (the break and continue jumps), regions (the
\* && and || expressions) and prints (the print calls)
emit(g, line) == [g EXCEPT !.output = Append(@, line)]

emitLabel(g, label) == emit(g, LabelLine(label))

emitComment(g, comment) == emit(g, CommentLine(comment))

\* several lines, one emit after the other
emitAll(g, lines) == [g EXCEPT !.output = @ \o lines]

\* newLabel returns prefix_<labelCounter_> and counts on
newLabel(g, prefix) == LabelText(prefix, "_", g.labelCounter)

afterNewLabels(g, n) == [g EXCEPT !.labelCounter = @ + n]

newStringLabel(g) == LabelText(".LC", "", g.stringCounter)

cgEnterScope(g) == [g EXCEPT !.scopes = Append(@, EmptyMap)]

\* an exitScope that calls freeStack(8) for every local of the scope it ends
cgExitScopeFreeing(g) ==
    [g EXCEPT !.scopes = SubSeq(@, 1, Len(@) - 1),
              !.stackOffset = @ - 8 * Cardinality(DOMAIN g.scopes[Len(g.scopes)])]

cgExitScope(g) == [g EXCEPT !.scopes = SubSeq(@, 1, Len(@) - 1)]

allocateStack(g, size) == [g EXCEPT !.stackOffset = @ + size]

declareLocal(g, name, type, mutable_) ==
    LET g1 == allocateStack(g, 8)
    IN IF g1.scopes # <<>>
       THEN [g1 EXCEPT !.scopes[Len(g1.scopes)] =
                MapPut(@, name, Variable(g1.stackOffset, type, mutable_))]
       ELSE g1

RECURSIVE lookupLocalFrom(_, _, _)
lookupLocalFrom(sc, i, name) ==
    IF i = 0 THEN nullptr
    ELSE IF name \in DOMAIN sc[i] THEN [found |-> TRUE, var |-> sc[i][name]]
    ELSE lookupLocalFrom(sc, i - 1, name)

lookupLocal(g, name) == lookupLocalFrom(g.scopes, Len(g.scopes), name)

\* the 64-bit pattern std::memcpy reads from the double of a float literal
doubleBits(value) == [bitsOf |-> value]

generateLiteral(e, g) ==
    CASE e.type.primitive = "INT" -> emit(g, Ins("mov_imm", "rax", e.value))
      [] e.type.primitive = "FLOAT" ->
           emitAll(g, <<Ins("mov_imm", "rax", doubleBits(e.value)),
                        Ins("movq", "xmm0", "rax")>>)
      [] e.type.primitive = "BOOL" ->
           emit(g, Ins("mov_imm", "rax", IF e.value = 1 THEN 1 ELSE 0))
      [] e.type.primitive = "STRING" ->
           emit([g EXCEPT !.stringCounter = @ + 1,
                          !.stringLiterals = MapPut(@, newStringLabel(g), e.str)],
                Ins("lea", "rax", newStringLabel(g)))

generateIdentifier(e, g) ==
    LET var == lookupLocal(g, e.name)
    IN IF var.found THEN emit(g, Ins("load", "rax", var.var.stackOffset))
       ELSE emit(g, Ins("xor", "eax", "eax"))

\* the instructions generateBinary emits after the operands of op
ArithmeticLines(op) ==
    CASE op = "+" -> <<Ins("add", "rax", "rcx")>>
      [] op = "-" -> <<Ins("sub", "rax", "rcx")>>
      [] op = "*" -> <<Ins("imul", "rax", "rcx")>>
      [] op = "/" -> <<Ins("cqo", "", ""), Ins("idiv", "rcx", "")>>
      [] op = "%" -> <<Ins("cqo", "", ""), Ins("idiv", "rcx", ""),
                       Ins("mov_reg", "rax", "rdx")>>
      [] op = "==" -> <<Ins("cmp", "rax", "rcx"), Ins("set", "e", "al"),
                        Ins("movzx", "rax", "al")>>
      [] op = "!=" -> <<Ins("cmp", "rax", "rcx"), Ins("set", "ne", "al"),
                        Ins("movzx", "rax", "al")>>
      [] op = "<" -> <<Ins("cmp", "rax", "rcx"), Ins("set", "l", "al"),
                       Ins("movzx", "rax", "al")>>
      [] op = ">" -> <<Ins("cmp", "rax", "rcx"), Ins("set", "g", "al"),
                       Ins("movzx", "rax", "al")>>
      [] op = "<=" -> <<Ins("cmp", "rax", "rcx"), Ins("set", "le", "al"),
                        Ins("movzx", "rax", "al")>>
      [] op = ">=" -> <<Ins("cmp", "rax", "rcx"), Ins("set", "ge", "al"),
                        Ins("movzx", "rax", "al")>>
      [] OTHER -> <<>>

\* the print routine generateCall picks for the first argument
printRoutine(arg) ==
    IF arg.kind = "Literal"
    THEN CASE arg.type.primitive = "STRING" ->
                <<Ins("mov_reg", "rdi", "rax"), Ins("call", "_print_str", "")>>
           [] arg.type.primitive = "FLOAT" ->
                <<Ins("movq", "xmm0", "rax"), Ins("call", "_print_float", "")>>
           [] arg.type.primitive = "BOOL" ->
                <<Ins("mov_reg", "edi", "eax"), Ins("call", "_print_bool", "")>>
           [] OTHER ->
                <<Ins("mov_reg", "rdi", "rax"), Ins("call", "_print_int", "")>>
    ELSE <<Ins("mov_reg", "rdi", "rax"), Ins("call", "_print_int", "")>>

paramRegs == <<"rdi", "rsi", "rdx", "rcx", "r8", "r9">>

RECURSIVE generateExpression(_, _), generateBinary(_, _), generateUnary(_, _),
          generateCall(_, _), generateMember(_, _), pushStackArguments(_, _, _),
          loadRegisterArguments(_, _, _)

generateExpression(e, g) ==
    CASE e.kind = "Literal" -> generateLiteral(e, g)
      [] e.kind = "Identifier" -> generateIdentifier(e, g)
      [] e.kind = "Binary" -> generateBinary(e, g)
      [] e.kind = "Unary" -> generateUnary(e, g)
      [] e.kind = "Call" -> generateCall(e, g)
      [] e.kind = "Member" -> generateMember(e, g)
      [] OTHER -> g

\* && and ||: jump is jz for &&, jnz for ||; the value set on the path that
\* falls through both tests is first, the value at the label is second
generateShortCircuit(e, g, jump, outLabel, endLabel, first, second) ==
    LET g1 == afterNewLabels(g, 2)
        gA == generateExpression(e.left, g1)
        gT == emitAll(gA, <<Ins("test", "rax", "rax"), Ins(jump, outLabel, "")>>)
        gB == generateExpression(e.right, gT)
        gE == emitAll(gB, <<Ins("test", "rax", "rax"), Ins(jump, outLabel, ""),
                            first, Ins("jmp", endLabel, ""), LabelLine(outLabel),
                            second, LabelLine(endLabel)>>)
    IN [gE EXCEPT !.regions = Append(@,
            [op |-> e.op, aTest |-> Len(gA.output) + 1,
             bFirst |-> Len(gT.output) + 1, bTest |-> Len(gB.output) + 1,
             last |-> Len(gE.output)])]

\* generateBinary with the right operand of && generated before the test
\* of the left one
generateBinaryEager(e, g) ==
    IF e.op = "&&"
    THEN LET g1 == afterNewLabels(g, 2)
             outLabel == newLabel(g, ".Land_false")
             endLabel == LabelText(".Land_end", "_", g.labelCounter + 1)
             gA == emit(generateExpression(e.left, g1), Ins("push", "rax", ""))
             gB == emitAll(generateExpression(e.right, gA),
                           <<Ins("mov_reg", "rcx", "rax"), Ins("pop", "rax", "")>>)
             gT == emitAll(gB, <<Ins("test", "rax", "rax"), Ins("jz", outLabel, ""),
                                 Ins("mov_reg", "rax", "rcx")>>)
             gE == emitAll(gT, <<Ins("test", "rax", "rax"), Ins("jz", outLabel, ""),
                                 Ins("mov_imm", "rax", 1), Ins("jmp", endLabel, ""),
                                 LabelLine(outLabel), Ins("xor", "eax", "eax"),
                                 LabelLine(endLabel)>>)
         IN [gE EXCEPT !.regions = Append(@,
                 [op |-> e.op, aTest |-> Len(gB.output) + 1,
                  bFirst |-> Len(gA.output) + 1, bTest |-> Len(gT.output) + 1,
                  last |-> Len(gE.output)])]
    ELSE IF e.op = "||"
    THEN generateShortCircuit(e, g, "jnz", newLabel(g, ".Lor_true"),
             LabelText(".Lor_end", "_", g.labelCounter + 1),
             Ins("xor", "eax", "eax"), Ins("mov_imm", "rax", 1))
    ELSE emitAll(generateExpression(e.right,
                     emit(generateExpression(e.left, g), Ins("push", "rax", ""))),
                 <<Ins("mov_reg", "rcx", "rax"), Ins("pop", "rax", "")>>
                     \o ArithmeticLines(e.op))

generateBinary(e, g) ==
    IF e.op = "&&"
    THEN generateShortCircuit(e, g, "jz", newLabel(g, ".Land_false"),
             LabelText(".Land_end", "_", g.labelCounter + 1),
             Ins("mov_imm", "rax", 1), Ins("xor", "eax", "eax"))
    ELSE IF e.op = "||"
    THEN generateShortCircuit(e, g, "jnz", newLabel(g, ".Lor_true"),
             LabelText(".Lor_end", "_", g.labelCounter + 1),
             Ins("xor", "eax", "eax"), Ins("mov_imm", "rax", 1))
    ELSE emitAll(generateExpression(e.right,
                     emit(generateExpression(e.left, g), Ins("push", "rax", ""))),
                 <<Ins("mov_reg", "rcx", "rax"), Ins("pop", "rax", "")>>
                     \o ArithmeticLines(e.op))

generateUnary(e, g) ==
    emitAll(generateExpression(e.operand, g),
            CASE e.op = "-" -> <<Ins("neg", "rax", "")>>
              [] e.op = "!" -> <<Ins("test", "rax", "rax"), Ins("set", "z", "al"),
                                 Ins("movzx", "rax", "al")>>
              [] e.op = "~" -> <<Ins("not", "rax", "")>>
              [] OTHER -> <<>>)

\* the arguments beyond the registers, last first
pushStackArguments(args, i, g) ==
    IF i <= Len(paramRegs) THEN g
    ELSE pushStackArguments(args, i - 1,
             emit(generateExpression(args[i], g), Ins("push", "rax", "")))

loadRegisterArguments(args, i, g) ==
    IF i > Len(args) \/ i > Len(paramRegs) THEN g
    ELSE loadRegisterArguments(args, i + 1,
             emit(generateExpression(args[i], g),
                  Ins("mov_reg", paramRegs[i], "rax")))

generateCall(e, g) ==
    IF e.callee.kind = "Member" /\ e.callee.property \in {"print", "println"}
    THEN IF e.arguments # <<>>
         THEN LET gA == emitAll(generateExpression(e.arguments[1], g),
                                printRoutine(e.arguments[1]))
              IN emit([gA EXCEPT !.prints = Append(@,
                           [at |-> Len(gA.output), argument |-> e.arguments[1],
                            scopes |-> g.scopes])],
                      Ins("xor", "eax", "eax"))
         ELSE emit(g, Ins("xor", "eax", "eax"))
    ELSE LET gA == loadRegisterArguments(e.arguments, 1,
                       pushStackArguments(e.arguments, Len(e.arguments), g))
         IN emit([gA EXCEPT !.calls = Append(@,
                      [from |-> Len(g.output) + 1, at |-> Len(gA.output) + 1,
                       callee |-> e.callee, arguments |-> e.arguments])],
                 \* call _user_<name>, or call with no name
                 IF e.callee.kind = "Identifier"
                 THEN Ins("call_user", e.callee.name, "")
                 ELSE Ins("call", "", ""))

generateMember(e, g) == generateExpression(e.object, g)

generateFunctionEpilogue(g) ==
    emitAll(g, <<Ins("mov_reg", "rsp", "rbp"), Ins("pop", "rbp", ""),
                 Ins("ret", "", "")>>)

generateLetStmt(s, g) ==
    LET gV == generateExpression(s.value, emitComment(g, <<"let ", s.name>>))
        gD == declareLocal(gV, s.name, s.type, s.mutable_)
    IN emit(gD, Ins("store", gD.stackOffset, "rax"))

generateAssignStmt(s, g) ==
    LET gV == generateExpression(s.value, emitComment(g, <<"assign ", s.target>>))
        var == lookupLocal(gV, s.target)
    IN IF var.found THEN emit(gV, Ins("store", var.var.stackOffset, "rax")) ELSE gV

generateReturnStmt(s, g) ==
    LET gC == emitComment(g, <<"return">>)
    IN generateFunctionEpilogue(
           IF s.value # NoExpr THEN generateExpression(s.value, gC)
           ELSE emit(gC, Ins("xor", "eax", "eax")))

\* the jump of a break or continue statement: jmp .L<target>
generateJump(g, kind, target) ==
    IF target >= 0
    THEN LET gJ == emit(g, Ins("jmp", LabelText(".L", "", target), ""))
         IN [gJ EXCEPT !.jumps = Append(@,
                 [at |-> Len(gJ.output), stmt |-> kind, loops |-> g.loops])]
    ELSE g

\* breakLabel_ and continueLabel_ as a loop sets them after its newLabel calls
enterLoop(g, labels) ==
    [g EXCEPT !.breakLabel = g.labelCounter,
              !.continueLabel = g.labelCounter - 1,
              !.loops = Append(@, labels)]

\* breakLabel_ = oldBreak; continueLabel_ = oldContinue
leaveLoop(g, old) ==
    [g EXCEPT !.breakLabel = old.breakLabel,
              !.continueLabel = old.continueLabel,
              !.loops = old.loops]

RECURSIVE generateStatement(_, _), generateBlock(_, _, _), generateIfStmt(_, _),
          generateWhileStmt(_, _), generateForStmt(_, _)

\* for (const auto& s : stmts) generateStatement(*s)
generateBlock(stmts, i, g) ==
    IF i > Len(stmts) THEN g
    ELSE generateBlock(stmts, i + 1, generateStatement(stmts[i], g))

generateIfStmt(s, g) ==
    LET elseLabel == newLabel(g, ".Lelse")
        endLabel == LabelText(".Lendif", "_", g.labelCounter + 1)
        gC == generateExpression(s.condition,
                  emitComment(afterNewLabels(g, 2), <<"if">>))
        gT == cgExitScope(generateBlock(s.thenBranch, 1,
                  cgEnterScope(emitAll(gC, <<Ins("test", "rax", "rax"),
                                            Ins("jz", elseLabel, "")>>))))
        gL == emitAll(gT, <<Ins("jmp", endLabel, ""), LabelLine(elseLabel)>>)
        gE == IF s.elseBranch # <<>>
              THEN cgExitScope(generateBlock(s.elseBranch, 1, cgEnterScope(gL)))
              ELSE gL
    IN emitLabel(gE, endLabel)

generateWhileStmt(s, g) ==
    LET startLabel == newLabel(g, ".Lwhile")
        endLabel == LabelText(".Lendwhile", "_", g.labelCounter + 1)
        gL == enterLoop(afterNewLabels(g, 2),
                        [kind |-> "while", start |-> startLabel, end |-> endLabel])
        gC == generateExpression(s.condition,
                  emitAll(gL, <<LabelLine(startLabel),
                                CommentLine(<<"while condition">>)>>))
        gB == cgExitScope(generateBlock(s.body, 1,
                  cgEnterScope(emitAll(gC, <<Ins("test", "rax", "rax"),
                                            Ins("jz", endLabel, "")>>))))
    IN leaveLoop(emitAll(gB, <<Ins("jmp", startLabel, ""), LabelLine(endLabel)>>), g)

generateForStmt(s, g) ==
    LET startLabel == newLabel(g, ".Lfor")
        updateLabel == LabelText(".Lforupd", "_", g.labelCounter + 1)
        endLabel == LabelText(".Lendfor", "_", g.labelCounter + 2)
        gL == enterLoop(afterNewLabels(g, 3),
                        [kind |-> "for", start |-> startLabel,
                         update |-> updateLabel, end |-> endLabel])
        gI == generateStatement(s.init, cgEnterScope(gL))
        gC == generateExpression(s.condition,
                  emitAll(gI, <<LabelLine(startLabel),
                                CommentLine(<<"for condition">>)>>))
        gB == generateBlock(s.body, 1,
                  emitAll(gC, <<Ins("test", "rax", "rax"), Ins("jz", endLabel, "")>>))
        gU == generateStatement(s.update, emitLabel(gB, updateLabel))
    IN leaveLoop(cgExitScope(emitAll(gU, <<Ins("jmp", startLabel, ""),
                                           LabelLine(endLabel)>>)), g)

generateStatement(s, g) ==
    CASE s.kind = "Let" -> generateLetStmt(s, g)
      [] s.kind = "Assign" -> generateAssignStmt(s, g)
      [] s.kind = "Expr" -> generateExpression(s.expr, g)
      [] s.kind = "If" -> generateIfStmt(s, g)
      [] s.kind = "While" -> generateWhileStmt(s, g)
      [] s.kind = "For" -> generateForStmt(s, g)
      [] s.kind = "Return" -> generateReturnStmt(s, g)
      [] s.kind = "Break" -> generateJump(g, "break", g.breakLabel)
      [] s.kind = "Continue" -> generateJump(g, "continue", g.continueLabel)
      [] OTHER -> g

generatePrologue ==
    <<Ins("push", "rbp", ""), Ins("mov_reg", "rbp", "rsp"),
      Ins("sub_imm", "rsp", 256)>>

generateEpilogue ==
    <<Ins("mov_reg", "rsp", "rbp"), Ins("pop", "rbp", ""), Ins("ret", "", "")>>

\* a label that is no newLabel text: prefix, then name
RoutineLine(prefix, name) == [op |-> "routine", a |-> prefix, b |-> name]

\* a line of the header or a section directive
TextLine(text) == [op |-> "text", a |-> text, b |-> <<>>]

\* the definition of a data label: fmt_int and its like, and the string
\* literals
DataLine(label, value) == [op |-> "data", a |-> label, b |-> value]
StringLine(label, value) == [op |-> "string", a |-> label, b |-> value]

MainName == <<"m", "a", "i", "n">>

RECURSIVE storeParameters(_, _, _)
\* for (i < params.size() && i < numRegs) declareLocal, mov [rbp-offset], reg
storeParameters(params, i, g) ==
    IF i > Len(params) \/ i > Len(paramRegs) THEN g
    ELSE LET gD == declareLocal(g, params[i].name, params[i].type, FALSE)
         IN storeParameters(params, i + 1,
                emit(gD, Ins("store", gD.stackOffset, paramRegs[i])))

generateFunctionStmt(s, g) ==
    LET g0 == [g EXCEPT !.stackOffset = 0]
        gP == emitAll(g0, <<(IF s.name # MainName THEN RoutineLine("_user_", s.name)
                             ELSE RoutineLine("main", <<>>)),
                            Ins("push", "rbp", ""), Ins("mov_reg", "rbp", "rsp"),
                            Ins("sub_imm", "rsp", 128)>>)
        gA == storeParameters(s.params, 1, cgEnterScope(gP))
        gB == generateBlock(s.body, 1, gA)
    IN cgExitScope(emitAll(gB, <<Ins("xor", "eax", "eax"), Ins("mov_reg", "rsp", "rbp"),
                                 Ins("pop", "rbp", ""), Ins("ret", "", "")>>))

RECURSIVE generateFunctions(_, _, _)
\* for (const auto* func : userFunctions) generateFunctionStmt(*func)
generateFunctions(statements, i, g) ==
    IF i > Len(statements) THEN g
    ELSE generateFunctions(statements, i + 1,
             IF statements[i].kind = "Function"
             THEN generateFunctionStmt(statements[i], g) ELSE g)

RECURSIVE generateMain(_, _, _)
\* for (const auto* stmt : mainStatements) generateStatement(*stmt)
generateMain(statements, i, g) ==
    IF i > Len(statements) THEN g
    ELSE generateMain(statements, i + 1,
             IF statements[i].kind \notin {"Function", "Import"}
             THEN generateStatement(statements[i], g) ELSE g)

\* the labels of the four print routines (their bodies are fixed text)
generateBuiltinPrint(g) ==
    emitAll(g, <<RoutineLine("_print_int", <<>>), RoutineLine("_print_float", <<>>),
                 RoutineLine("_print_str", <<>>), RoutineLine("_print_bool", <<>>)>>)

RECURSIVE stringLines(_, _, _, _)
\* the string literals .LC<from> to .LC<to>, in steps of step
stringLines(literals, from, to, step) ==
    IF from = to + step THEN <<>>
    ELSE <<StringLine(LabelText(".LC", "", from),
                      literals[LabelText(".LC", "", from)])>>
         \o stringLines(literals, from + step, to, step)

\* stringLiterals_ is an unordered_map: the range-for meets its entries in
\* the order of the buckets the standard library put them in, an order that
\* is the same whenever the same keys were inserted in the same order
generateDataSection(g, order) ==
    emitAll(g, <<TextLine("section .data"), DataLine("fmt_int", <<>>),
                 DataLine("fmt_float", <<>>), DataLine("fmt_str", <<>>),
                 DataLine("str_true", <<>>), DataLine("str_false", <<>>)>>
               \o (IF order = "ascending"
                   THEN stringLines(g.stringLiterals, 0, g.stringCounter - 1, 1)
                   ELSE stringLines(g.stringLiterals, g.stringCounter - 1, 0, -1)))

\* a generator whose label counter lives on from one generator to the next
CodeGeneratorSharedCounter ==
    [output |-> <<>>, stackOffset |-> 0, labelCounter |-> cmRun - 1,
     stringCounter |-> 0, scopes |-> <<>>, breakLabel |-> -1, continueLabel |-> -1,
     stringLiterals |-> EmptyMap, loops |-> <<>>, jumps |-> <<>>, regions |-> <<>>,
     prints |-> <<>>, calls |-> <<>>]

\* CodeGenerator::CodeGenerator
CodeGenerator ==
    [output |-> <<>>, stackOffset |-> 0, labelCounter |-> 0, stringCounter |-> 0,
     scopes |-> <<>>, breakLabel |-> -1, continueLabel |-> -1,
     stringLiterals |-> EmptyMap, loops |-> <<>>, jumps |-> <<>>, regions |-> <<>>,
     prints |-> <<>>, calls |-> <<>>]

\* CodeGenerator::generate up to the user functions; gen is the generator it
\* is called on
generateText(statements, gen) ==
    generateFunctions(statements, 1,
        emitAll([gen EXCEPT !.output = <<>>],
                <<TextLine("default rel"), TextLine("global main"),
                  TextLine("extern printf"), TextLine("section .text")>>))

\* CodeGenerator::generate from the print routines on
generateRest(statements, g, order) ==
    LET gM == emitAll(generateBuiltinPrint(g),
                      <<RoutineLine("main", <<>>)>> \o generatePrologue)
        gS == cgExitScope(generateMain(statements, 1, cgEnterScope(gM)))
        gE == emitAll(gS, <<Ins("xor", "eax", "eax")>> \o generateEpilogue)
    IN emit(generateDataSection(gE, order), TextLine("section .bss"))

\* CodeGenerator::generate up to return output_.str()
generateAll(statements, gen, order) ==
    generateRest(statements, generateText(statements, gen), order)

\* CodeGenerator::generate
generate(statements, gen, order) == generateAll(statements, gen, order).output

\* main statements one generated program holds
MaxMainStmts == 2

\* the program generate is given: declarations, then one statement that
\* uses them
CgLets ==
    {LetStmt("let", "x", T("INT"), IntLit(0)),
     LetStmt("var", "x", T("INT"), IntLit(2)),
     LetStmt("let", "s", T("STRING"), StrLit("hi")),
     LetStmt("let", "b", T("BOOL"), BoolLit(TRUE)),
     LetStmt("let", "f", T("FLOAT"), FloatLit(<<"1", ".", "5">>))}

PrintCall(property, arg) == Call(Member(Id("io"), property), <<arg>>)

CgOperands == {IntLit(0), IntLit(2), BoolLit(TRUE), Id("x")}

CgInner ==
    CgOperands
    \cup {Bin(op, l, r) : op \in {"&&", "||"}, l \in {IntLit(0), Id("x")},
                           r \in {IntLit(0), Id("x")}}
    \cup {Un("!", Id("x")), Bin("==", Id("x"), IntLit(2)),
          PrintCall("print", IntLit(7))}

CgLogical == {Bin(op, l, r) : op \in {"&&", "||"}, l \in CgInner, r \in CgInner}

CgPrintArgs ==
    {StrLit("hi"), IntLit(7), BoolLit(TRUE), FloatLit(<<"1", ".", "5">>),
     Id("x"), Id("s"), Id("b"), Id("f"), Bin("+", Id("x"), IntLit(2))}

CgPrints ==
    {ExprStmt(PrintCall(p, a)) : p \in {"print", "println"}, a \in CgPrintArgs}

CgLoopLeaves == {BreakStmt, ContinueStmt, AssignStmt("x", IntLit(0))}

CgLoopStmts ==
    CgLoopLeaves
    \cup {WhileLoop(Id("x"), <<l>>) : l \in CgLoopLeaves}
    \cup {IfElse(Id("x"), <<BreakStmt>>, <<>>)}

CgLoopBodies ==
    {<<a>> : a \in CgLoopStmts} \cup {<<a, b>> : a \in CgLoopStmts, b \in CgLoopStmts}

CgLoops ==
    {WhileLoop(c, body) : c \in {Id("x"), BoolLit(TRUE)}, body \in CgLoopBodies}
    \cup {ForLoop(LetStmt("var", "i", T("INT"), IntLit(0)),
                  Bin("<", Id("i"), IntLit(2)),
                  AssignStmt("i", Bin("+", Id("i"), IntLit(1))), body) :
              body \in CgLoopBodies}

CgStmts == {ExprStmt(e) : e \in CgLogical} \cup CgPrints \cup CgLoops

\* the members of CodeGenerator as one value
GenState ==
    [output |-> output_, stackOffset |-> stackOffset_,
     labelCounter |-> labelCounter_, stringCounter |-> stringCounter_,
     scopes |-> cgScopes, breakLabel |-> breakLabel_,
     continueLabel |-> continueLabel_, stringLiterals |-> stringLiterals_,
     loops |-> <<>>, jumps |-> cgJumps, regions |-> cgRegions, prints |-> cgPrints,
     calls |-> cgCalls]

Generated(g) ==
    /\ output_' = g.output
    /\ stackOffset_' = g.stackOffset
    /\ labelCounter_' = g.labelCounter
    /\ stringCounter_' = g.stringCounter
    /\ cgScopes' = g.scopes
    /\ breakLabel_' = g.breakLabel
    /\ continueLabel_' = g.continueLabel
    /\ stringLiterals_' = g.stringLiterals
    /\ cgJumps' = g.jumps
    /\ cgRegions' = g.regions
    /\ cgPrints' = g.prints
    /\ cgCalls' = g.calls

RegNames == {"rax", "rcx", "rdx", "rdi", "rsi", "r8", "r9", "xmm0", "rsp", "rbp"}

\* the address in rsp when main is entered
StackTop == 4096

NoFlags == [l |-> 0, r |-> 1]

IdleMachine ==
    /\ ip = 0
    /\ prev = 0
    /\ regs = [r \in RegNames |-> 0]
    /\ mem = EmptyMap
    /\ flags = NoFlags
    /\ raxAt = EmptyMap
    /\ printed = {}

IdleCg ==
    /\ output_ = <<>>
    /\ stackOffset_ = 0
    /\ labelCounter_ = 0
    /\ stringCounter_ = 0
    /\ cgScopes = <<>>
    /\ breakLabel_ = -1
    /\ continueLabel_ = -1
    /\ stringLiterals_ = EmptyMap
    /\ cgJumps = <<>>
    /\ cgRegions = <<>>
    /\ cgPrints = <<>>
    /\ cgCalls = <<>>
    /\ cgPc = "idle"
    /\ cgStmt = NoStmt
    /\ cgCount = 0
    /\ IdleMachine

\* CodeGenerator::CodeGenerator, and generate up to the loop over the main
\* statements of a program without functions: output_ holds main: and its
\* prologue (the header and the print routines before them are fixed text)
InitCg ==
    /\ output_ = <<RoutineLine("main", <<>>)>> \o generatePrologue
    /\ stackOffset_ = 0
    /\ labelCounter_ = 0
    /\ stringCounter_ = 0
    /\ cgScopes = <<EmptyMap>>
    /\ breakLabel_ = -1
    /\ continueLabel_ = -1
    /\ stringLiterals_ = EmptyMap
    /\ cgJumps = <<>>
    /\ cgRegions = <<>>
    /\ cgPrints = <<>>
    /\ cgCalls = <<>>
    /\ cgPc = "generating"
    /\ cgStmt = NoStmt
    /\ cgCount = 0
    /\ IdleMachine

machineVars == <<ip, prev, regs, mem, flags, raxAt, printed>>

\* generateStatement on the next main statement
GenerateStatement ==
    /\ cgPc = "generating"
    /\ cgCount < MaxMainStmts
    /\ cgStmt.kind \in {"None", "Let"}
    /\ \E s \in CgLets \cup CgStmts :
          /\ cgStmt' = s
          /\ Generated(generateStatement(s, GenState))
    /\ cgCount' = cgCount + 1
    /\ UNCHANGED <<cgPc, machineVars>>
    /\ UNCHANGED notCgVars

\* the end of generate: exitScope, then the exit code of main
GenerateReturns ==
    /\ cgPc = "generating"
    /\ cgCount > 0
    /\ Generated(emitAll(cgExitScope(GenState),
                         <<Ins("xor", "eax", "eax")>> \o generateEpilogue))
    /\ cgPc' = "generated"
    /\ UNCHANGED <<cgStmt, cgCount, machineVars>>
    /\ UNCHANGED notCgVars

-----------------------------------------------------------------------------
(* The emitted code, run: the x86-64 instructions the generator uses *)

\* the 64-bit register a register name is part of
Reg64(name) ==
    CASE name \in {"eax", "al"} -> "rax"
      [] name = "edi" -> "rdi"
      [] OTHER -> name

\* the line that defines a label, 0 if none does
LabelIndex(output, label) ==
    LET defs == {i \in 1..Len(output) :
                    IF output[i].op = "label" THEN output[i].a = label ELSE FALSE}
    IN IF defs = {} THEN 0 ELSE CHOOSE i \in defs : \A j \in defs : i <= j

\* where a string constant lies in .data
StringAddress(label) == 8192 + label.n

Holds(cond, f) ==
    CASE cond \in {"e", "z"} -> f.l = f.r
      [] cond = "ne" -> f.l # f.r
      [] cond = "l" -> f.l < f.r
      [] cond = "g" -> f.l > f.r
      [] cond = "le" -> f.l <= f.r
      [] cond = "ge" -> f.l >= f.r

Abs(v) == IF v < 0 THEN -v ELSE v

\* the quotient idiv leaves in rax: rounded towards zero
Quotient(n, d) ==
    IF (n < 0) = (d < 0) THEN Abs(n) \div Abs(d) ELSE -(Abs(n) \div Abs(d))

\* the width of a general register. The processor's registers hold 64 bits;
\* the machine here keeps every rule of the two's complement arithmetic at a
\* width whose products the model checker can compute
WordBits == 16

MinWord == -(2 ^ (WordBits - 1))

MaxWord == 2 ^ (WordBits - 1) - 1

\* the register contents an arithmetic result leaves: the low WordBits bits
Wrap(v) == ((v - MinWord) % (2 ^ WordBits)) + MinWord

\* idiv raises a divide error (#DE) on a zero divisor and on a quotient that
\* does not fit the destination register
DivideError(n, d) ==
    IF d = 0 THEN TRUE ELSE Quotient(n, d) \notin MinWord..MaxWord

PrintRoutines == {"_print_int", "_print_float", "_print_str", "_print_bool"}

\* what a print routine may leave in rax
CallReturns == {0, 5}

Fault(m) == [m EXCEPT !.status = "fault"]

\* the first line that defines the routine prefix + name, 0 if none does
RoutineIndex(output, prefix, name) ==
    LET defs == {i \in 1..Len(output) :
                    IF output[i].op = "routine"
                    THEN output[i].a = prefix /\ output[i].b = name ELSE FALSE}
    IN IF defs = {} THEN 0 ELSE CHOOSE i \in defs : \A j \in defs : i <= j

Goto(m, output, label) ==
    IF LabelIndex(output, label) = 0 THEN Fault(m)
    ELSE [m EXCEPT !.ip = LabelIndex(output, label)]

\* the machine after the line at m.ip
Exec(line, output, m, returned) ==
    LET next == [m EXCEPT !.ip = @ + 1]
        set(r, v) == [next EXCEPT !.regs[r] = v]
        rax == m.regs["rax"]
        rcx == m.regs["rcx"]
    IN CASE line.op \in {"label", "comment", "routine"} -> next
         [] line.op = "mov_imm" -> set(Reg64(line.a), line.b)
         [] line.op \in {"mov_reg", "movq"} ->
              set(Reg64(line.a), m.regs[Reg64(line.b)])
         [] line.op = "sub_imm" -> set(line.a, m.regs[line.a] - line.b)
         [] line.op = "load" ->
              IF m.regs["rbp"] - line.b \in DOMAIN m.mem
              THEN set(line.a, m.mem[m.regs["rbp"] - line.b])
              ELSE Fault(m)
         [] line.op = "store" ->
              [next EXCEPT !.mem = MapPut(@, m.regs["rbp"] - line.a, m.regs[line.b])]
         [] line.op = "lea" -> set(line.a, StringAddress(line.b))
         [] line.op = "xor" -> set(Reg64(line.a), 0)
         [] line.op = "test" -> [next EXCEPT !.flags = [l |-> m.regs[line.a], r |-> 0]]
         [] line.op = "cmp" ->
              [next EXCEPT !.flags = [l |-> m.regs[line.a], r |-> m.regs[line.b]]]
         [] line.op = "jz" ->
              IF Holds("z", m.flags) THEN Goto(m, output, line.a) ELSE next
         [] line.op = "jnz" ->
              IF Holds("ne", m.flags) THEN Goto(m, output, line.a) ELSE next
         [] line.op = "jmp" -> Goto(m, output, line.a)
         [] line.op = "push" ->
              [next EXCEPT !.regs["rsp"] = @ - 8,
                           !.mem = MapPut(@, m.regs["rsp"] - 8, m.regs[line.a])]
         [] line.op = "pop" ->
              IF m.regs["rsp"] \in DOMAIN m.mem
              THEN [next EXCEPT !.regs[line.a] = m.mem[m.regs["rsp"]],
                                !.regs["rsp"] = m.regs["rsp"] + 8]
              ELSE Fault(m)
         [] line.op = "add" -> set("rax", Wrap(rax + rcx))
         [] line.op = "sub" -> set("rax", Wrap(rax - rcx))
         [] line.op = "imul" -> set("rax", Wrap(rax * rcx))
         [] line.op = "cqo" -> set("rdx", IF rax < 0 THEN -1 ELSE 0)
         [] line.op = "idiv" ->
              IF DivideError(rax, rcx) THEN Fault(m)
              ELSE [next EXCEPT !.regs["rax"] = Quotient(rax, rcx),
                                !.regs["rdx"] = rax - rcx * Quotient(rax, rcx)]
         [] line.op = "set" ->
              set("rax", rax - (rax % 256) + (IF Holds(line.a, m.flags) THEN 1 ELSE 0))
         [] line.op = "movzx" -> set("rax", rax % 256)
         [] line.op = "neg" -> set("rax", Wrap(-rax))
         [] line.op = "not" -> set("rax", -rax - 1)
         [] line.op = "call" ->
              IF line.a \in PrintRoutines
              THEN [next EXCEPT
                       !.regs["rax"] = returned,
                       !.printed = @ \cup
                           {<<line.a, m.regs[IF line.a = "_print_float" THEN "xmm0"
                                             ELSE "rdi"]>>}]
              ELSE Fault(m)
         [] line.op = "call_user" ->
              IF RoutineIndex(output, "_user_", line.a) = 0 THEN Fault(m)
              ELSE [m EXCEPT !.ip = RoutineIndex(output, "_user_", line.a),
                             !.regs["rsp"] = @ - 8,
                             !.mem = MapPut(@, m.regs["rsp"] - 8, m.ip + 1)]
         [] line.op = "ret" ->
              IF m.regs["rsp"] < StackTop /\ m.regs["rsp"] \in DOMAIN m.mem
              THEN [m EXCEPT !.ip = m.mem[m.regs["rsp"]],
                             !.regs["rsp"] = @ + 8]
              ELSE [m EXCEPT !.status = "exited"]

Machine ==
    [ip |-> ip, regs |-> regs, mem |-> mem, flags |-> flags, printed |-> printed,
     status |-> "running"]

\* the operating system enters main
Run ==
    /\ cgPc = "generated"
    /\ cgPc' = "running"
    /\ ip' = RoutineIndex(output_, "main", <<>>)
    /\ regs' = [r \in RegNames |-> IF r = "rsp" THEN StackTop ELSE 0]
    /\ UNCHANGED <<prev, mem, flags, raxAt, printed>>
    /\ UNCHANGED <<output_, stackOffset_, labelCounter_, stringCounter_, cgScopes,
                   breakLabel_, continueLabel_, stringLiterals_, cgJumps,
                   cgRegions, cgPrints, cgCalls, cgStmt, cgCount>>
    /\ UNCHANGED notCgVars

\* the processor executes the line at ip
Step ==
    /\ cgPc = "running"
    /\ \E returned \in (IF output_[ip].op = "call" THEN CallReturns ELSE {0}) :
          LET m == Exec(output_[ip], output_, Machine, returned)
          IN /\ ip' = m.ip
             /\ regs' = m.regs
             /\ mem' = m.mem
             /\ flags' = m.flags
             /\ printed' = m.printed
             /\ cgPc' = m.status
    /\ prev' = ip
    /\ raxAt' = MapPut(raxAt, ip, regs["rax"])
    /\ UNCHANGED <<output_, stackOffset_, labelCounter_, stringCounter_, cgScopes,
                   breakLabel_, continueLabel_, stringLiterals_, cgJumps,
                   cgRegions, cgPrints, cgCalls, cgStmt, cgCount>>
    /\ UNCHANGED notCgVars

NextCg == GenerateStatement \/ GenerateReturns \/ Run \/ Step

-----------------------------------------------------------------------------
(* The compiler driver (compiler.cpp, main.cpp), as built for Linux *)

\* a local of the code: value, computed once, in the statements after it
Given(value, rest(_)) == rest(value)

RECURSIVE tokenizeFrom(_, _, _)
\* the do/while of Lexer::tokenize from position at on
tokenizeFrom(src, at, toks) ==
    Given(nextToken(src, at), LAMBDA r :
    IF r.aborted THEN [aborted |-> TRUE, tokens |-> toks]
    ELSE IF r.token.type \in {"END_OF_FILE", "ERROR"}
    THEN [aborted |-> FALSE, tokens |-> Append(toks, r.token)]
    ELSE tokenizeFrom(src, r.at, Append(toks, r.token)))

\* Lexer lexer(source_, ...); lexer.tokenize()
tokenize(src) == tokenizeFrom(src, LexAt(0, 1, 1), <<>>)

\* what TypeChecker::check leaves, or the TypeError it throws
Checked(r, fn) == [ok |-> r.ok, err |-> r.err, scopes |-> r.scopes, functions |-> fn]

RECURSIVE checkEach(_, _, _, _, _, _), checkAny(_, _, _, _, _)

\* for (const auto& s : statements) checkStatement(*s)
checkEach(statements, i, sc, fn, inFunction, currentReturnType) ==
    IF i > Len(statements) THEN Checked(Pass(sc), fn)
    ELSE Bind(checkAny(statements[i], sc, fn, inFunction, currentReturnType),
              LAMBDA r : checkEach(statements, i + 1, r.scopes, r.functions,
                                   inFunction, currentReturnType))

\* TypeChecker::checkStatement, the statements with blocks included
checkAny(s, sc, fn, inFunction, currentReturnType) ==
    LET inBlock(body, scB, fnB, inF, ret) ==
            Bind(checkEach(body, 1, scB, fnB, inF, ret),
                 LAMBDA b : [b EXCEPT !.scopes = exitScope(@)])
        whenChecked(condition, rest(_)) ==
            IF ~condition.ok THEN Checked(condition, fn) ELSE rest(condition)
    IN CASE s.kind = "Function" ->
              LET fn1 == declareFunction(fn, s.name,
                             [i \in 1..Len(s.params) |-> s.params[i].type],
                             s.returnType)
              IN inBlock(s.body, declareParams(enterScope(sc), s.params, 1), fn1,
                         TRUE, s.returnType)
         [] s.kind = "While" ->
              whenChecked(checkCondition(s.condition, sc, fn), LAMBDA condition :
              inBlock(s.body, enterScope(sc), fn, inFunction, currentReturnType))
         [] s.kind = "If" ->
              whenChecked(checkCondition(s.condition, sc, fn), LAMBDA condition :
              Bind(inBlock(s.thenBranch, enterScope(sc), fn, inFunction,
                           currentReturnType), LAMBDA t :
              IF s.elseBranch = <<>> THEN t
              ELSE inBlock(s.elseBranch, enterScope(t.scopes), t.functions,
                           inFunction, currentReturnType)))
         [] s.kind = "For" ->
              Bind(checkAny(s.init, enterScope(sc), fn, inFunction,
                            currentReturnType), LAMBDA init :
              Given(checkCondition(s.condition, init.scopes, init.functions),
                    LAMBDA cond :
              IF ~cond.ok THEN Checked(cond, init.functions)
              ELSE Bind(checkAny(s.update, init.scopes, init.functions,
                                 inFunction, currentReturnType), LAMBDA update :
                   inBlock(s.body, update.scopes, update.functions, inFunction,
                           currentReturnType))))
         [] OTHER ->
              Checked(checkStatement(s, sc, fn, inFunction, currentReturnType), fn)

\* TypeChecker checker; checker.check(statements)
typeCheckProgram(statements) ==
    checkEach(statements, 1, enterScope(<<>>), EmptyMap, FALSE, T("VOID"))

\* the bytes of the input files
DriverSources ==
    {\* an expression statement: 1
     <<"1">>,
     \* a declaration: let x: int = 1
     <<"l", "e", "t", " ", "x", ":", " ", "i", "n", "t", " ", "=", " ", "1">>,
     \* two string literals: 'a''b'
     <<"\"", "a", "\"", "\"", "b", "\"">>,
     \* a function: func f() => int {}
     <<"f", "u", "n", "c", " ", "f", "(", ")", " ", "=", ">", " ", "i", "n", "t", " ", "{", "}">>,
     \* a function called main: func main() => int {}
     <<"f", "u", "n", "c", " ", "m", "a", "i", "n", "(", ")", " ", "=", ">", " ", "i", "n", "t", " ", "{", "}">>,
     \* two functions of one name: func f() => int {}func f() => int {}
     <<"f", "u", "n", "c", " ", "f", "(", ")", " ", "=", ">", " ", "i", "n", "t", " ", "{", "}", "f", "u", "n", "c", " ", "f", "(", ")", " ", "=", ">", " ", "i", "n", "t", " ", "{", "}">>,
     \* a short-circuit expression: true && true
     <<"t", "r", "u", "e", " ", "&", "&", " ", "t", "r", "u", "e">>,
     \* a byte the lexer rejects: &
     <<"&">>,
     \* a token no statement starts with: )
     <<")">>,
     \* a return outside a function: return
     <<"r", "e", "t", "u", "r", "n">>,
     \* an integer literal above LLONG_MAX: 99999999999999999999
     <<"9", "9", "9", "9", "9", "9", "9", "9", "9", "9", "9", "9", "9", "9", "9", "9", "9", "9", "9", "9">>}

\* struct CompilerOptions: the flags -S and -k
CompilerOptions == [emitAssembly : BOOLEAN, keepAssembly : BOOLEAN]

\* the phases in the order Compiler::compile calls them
PhaseOrder ==
    <<"readSource", "lexAndParse", "typeCheck", "generateCode", "assemble", "link">>

\* a phase returned true or false, or let an exception pass ("thrown"), or
\* the C runtime stopped the process inside it ("aborted")
Phase(phase, outcome) == [phase |-> phase, outcome |-> outcome]

IdleCm ==
    /\ options_ = [emitAssembly |-> FALSE, keepAssembly |-> FALSE]
    /\ compilerSource = <<>>
    /\ assembly_ = <<>>
    /\ inputFile = <<>>
    /\ disk = {}
    /\ bucketOrder = "ascending"
    /\ cmPc = "idle"
    /\ cmPhases = <<>>
    /\ cmReturn = "none"
    /\ exitCode = "none"
    /\ cmRun = 0
    /\ firstAssembly = <<>>

\* main has parsed its arguments and built the Compiler; compile is entered
InitCm ==
    /\ options_ \in CompilerOptions
    /\ compilerSource = <<>>
    /\ assembly_ = <<>>
    /\ inputFile \in DriverSources
    /\ disk = {}
    /\ bucketOrder \in {"ascending", "descending"}
    /\ cmPc = "readSource"
    /\ cmPhases = <<>>
    /\ cmReturn = "none"
    /\ exitCode = "none"
    /\ cmRun = 1
    /\ firstAssembly = <<>>

\* the phase returned false: compile returns false
PhaseFails(phase) ==
    /\ cmPhases' = Append(cmPhases, Phase(phase, "false"))
    /\ cmReturn' = "false"
    /\ cmPc' = "returned"

\* the phase returned true: compile goes on to next
PhaseSucceeds(phase, next) ==
    /\ cmPhases' = Append(cmPhases, Phase(phase, "true"))
    /\ cmReturn' = cmReturn
    /\ cmPc' = next

\* an exception left the phase, and compile and main with it (neither has a
\* handler), or the process was stopped inside the phase
PhaseLeaves(phase, outcome) ==
    /\ cmPhases' = Append(cmPhases, Phase(phase, outcome))
    /\ cmReturn' = "uncaught"
    /\ cmPc' = "terminated"

\* Compiler::readSource
ReadSource ==
    /\ cmPc = "readSource"
    /\ \E opens \in BOOLEAN :
          IF opens
          THEN /\ compilerSource' = inputFile
               /\ PhaseSucceeds("readSource", "lexAndParse")
          ELSE /\ compilerSource' = compilerSource
               /\ PhaseFails("readSource")
    /\ UNCHANGED <<options_, assembly_, inputFile, disk, bucketOrder, exitCode,
                   cmRun, firstAssembly>>
    /\ UNCHANGED notCmVars

\* the try block of lexAndParse, typeCheck and generateCode up to
\* parser.parse(): the statements, or what stopped it
lexedAndParsed(src) ==
    Given(tokenize(src), LAMBDA lexed :
    IF lexed.aborted THEN [ok |-> FALSE, exception |-> "aborted"]
    ELSE parse(lexed.tokens, 1, <<>>))

\* Compiler::lexAndParse: false on an ERROR token and on a ParseError
lexAndParse(src) ==
    Given(tokenize(src), LAMBDA lexed :
    IF lexed.aborted THEN "aborted"
    ELSE IF \E i \in 1..Len(lexed.tokens) : lexed.tokens[i].type = "ERROR"
    THEN "false"
    ELSE Given(parse(lexed.tokens, 1, <<>>), LAMBDA p :
         IF p.ok THEN "true"
         ELSE IF p.exception = "ParseError" THEN "false"
         ELSE "thrown"))

LexAndParse ==
    /\ cmPc = "lexAndParse"
    /\ \E outcome \in {lexAndParse(compilerSource)} :
          CASE outcome = "true" -> PhaseSucceeds("lexAndParse", "typeCheck")
            [] outcome = "false" -> PhaseFails("lexAndParse")
            [] OTHER -> PhaseLeaves("lexAndParse", outcome)
    /\ UNCHANGED <<options_, compilerSource, assembly_, inputFile, disk,
                   bucketOrder, exitCode, cmRun, firstAssembly>>
    /\ UNCHANGED notCmVars

\* Compiler::typeCheck: false on a TypeError and on a ParseError
typeCheck(src) ==
    Given(lexedAndParsed(src), LAMBDA p :
    IF p.ok THEN IF typeCheckProgram(p.node).ok THEN "true" ELSE "false"
    ELSE IF p.exception = "ParseError" THEN "false"
    ELSE IF p.exception = "aborted" THEN "aborted"
    ELSE "thrown")

TypeCheck ==
    /\ cmPc = "typeCheck"
    /\ \E outcome \in {typeCheck(compilerSource)} :
          CASE outcome = "true" -> PhaseSucceeds("typeCheck", "generateCode")
            [] outcome = "false" -> PhaseFails("typeCheck")
            [] OTHER -> PhaseLeaves("typeCheck", outcome)
    /\ UNCHANGED <<options_, compilerSource, assembly_, inputFile, disk,
                   bucketOrder, exitCode, cmRun, firstAssembly>>
    /\ UNCHANGED notCmVars

\* Compiler::generateCode, and the test of emitAssembly that follows it in
\* compile: every std::exception is caught; the assembly file is written
\* when it can be opened
GenerateCode ==
    /\ cmPc = "generateCode"
    /\ \E p \in {lexedAndParsed(compilerSource)} :
          IF p.ok
          THEN /\ assembly_' = generate(p.node, CodeGenerator, bucketOrder)
               /\ \E writable \in BOOLEAN :
                     IF writable
                     THEN /\ disk' = disk \cup {"asm"}
                          /\ cmPhases' = Append(cmPhases, Phase("generateCode", "true"))
                          /\ cmReturn' = IF options_.emitAssembly THEN "true"
                                         ELSE cmReturn
                          /\ cmPc' = IF options_.emitAssembly THEN "returned"
                                     ELSE "assemble"
                     ELSE /\ disk' = disk
                          /\ PhaseFails("generateCode")
          ELSE /\ UNCHANGED <<assembly_, disk>>
               /\ IF p.exception = "aborted"
                  THEN PhaseLeaves("generateCode", "aborted")
                  ELSE PhaseFails("generateCode")
    /\ UNCHANGED <<options_, compilerSource, inputFile, bucketOrder, exitCode,
                   cmRun, firstAssembly>>
    /\ UNCHANGED notCmVars

\* Compiler::assemble: nasm -f elf64 -o objFile_ asmFile_
Assemble ==
    /\ cmPc = "assemble"
    /\ \E result \in {0, 1} :
          IF result # 0
          THEN /\ disk' = disk
               /\ PhaseFails("assemble")
          ELSE /\ disk' = disk \cup {"obj"}
               /\ PhaseSucceeds("assemble", "link")
    /\ UNCHANGED <<options_, compilerSource, assembly_, inputFile, bucketOrder,
                   exitCode, cmRun, firstAssembly>>
    /\ UNCHANGED notCmVars

\* Compiler::link: ld, then gcc when ld failed
Link ==
    /\ cmPc = "link"
    /\ \E ld \in {0, 1}, gcc \in {0, 1} :
          IF ld # 0 /\ gcc # 0
          THEN /\ disk' = disk
               /\ PhaseFails("link")
          ELSE /\ disk' = disk \cup {"out"}
               /\ PhaseSucceeds("link", "cleanup")
    /\ UNCHANGED <<options_, compilerSource, assembly_, inputFile, bucketOrder,
                   exitCode, cmRun, firstAssembly>>
    /\ UNCHANGED notCmVars

\* the end of Compiler::compile: the intermediate files are removed
Cleanup ==
    /\ cmPc = "cleanup"
    /\ disk' = (disk \ (IF options_.keepAssembly THEN {} ELSE {"asm"})) \ {"obj"}
    /\ cmReturn' = "true"
    /\ cmPc' = "returned"
    /\ UNCHANGED <<options_, compilerSource, assembly_, inputFile, bucketOrder,
                   cmPhases, exitCode, cmRun, firstAssembly>>
    /\ UNCHANGED notCmVars

\* main after compiler.compile(): return 0 or 1; an exception nothing
\* catches ends in std::terminate, which aborts the process
Exit ==
    /\ cmPc \in {"returned", "terminated"}
    /\ exitCode' = CASE cmReturn = "true" -> "0"
                     [] cmReturn = "false" -> "1"
                     [] OTHER -> "SIGABRT"
    /\ cmPc' = "exited"
    /\ UNCHANGED <<options_, compilerSource, assembly_, inputFile, disk,
                   bucketOrder, cmPhases, cmReturn, cmRun, firstAssembly>>
    /\ UNCHANGED notCmVars

\* the compiler is run once more on the same input file, by the same build
CompileAgain ==
    /\ cmPc = "exited"
    /\ cmRun = 1
    /\ cmRun' = 2
    /\ firstAssembly' = assembly_
    /\ compilerSource' = <<>>
    /\ assembly_' = <<>>
    /\ disk' = {}
    /\ cmPc' = "readSource"
    /\ cmPhases' = <<>>
    /\ cmReturn' = "none"
    /\ exitCode' = "none"
    /\ UNCHANGED <<options_, inputFile, bucketOrder>>
    /\ UNCHANGED notCmVars

NextCm ==
    \/ ReadSource \/ LexAndParse \/ TypeCheck \/ GenerateCode
    \/ Assemble \/ Link \/ Cleanup \/ Exit \/ CompileAgain

-----------------------------------------------------------------------------
(* Calls of user functions: a program generated, then run *)

\* arguments of the calls generated
MaxArguments == 4

ParamNames == <<(<<"a">>), (<<"b">>), (<<"c">>), (<<"d">>), (<<"e">>), (<<"h">>)>>

\* func f(a: int, ...) => int { return a } with n parameters
FunctionF(n) ==
    FunctionDecl(<<"f">>, [i \in 1..n |-> Param(ParamNames[i], T("INT"))], T("INT"),
                 <<ReturnStmt(Id(<<"a">>))>>)

\* func g(a: int) => int { return a }
FunctionG ==
    FunctionDecl(<<"g">>, <<Param(<<"a">>, T("INT"))>>, T("INT"),
                 <<ReturnStmt(Id(<<"a">>))>>)

\* argument expressions: a literal, binary expressions, a nested call
CallArguments ==
    {IntLit(1), Bin("+", IntLit(1), IntLit(2)), Bin("/", IntLit(6), IntLit(3)),
     Call(Id(<<"g">>), <<IntLit(3)>>)}

\* the two functions, then the statement f(arguments)
CallPrograms ==
    {<<FunctionF(Len(arguments)), FunctionG,
       ExprStmt(Call(Id(<<"f">>), arguments))>> :
        arguments \in UNION {[1..n -> CallArguments] : n \in 1..MaxArguments}}

\* CodeGenerator::CodeGenerator, with a program the type checker accepts
InitCall ==
    /\ output_ = <<>>
    /\ stackOffset_ = 0
    /\ labelCounter_ = 0
    /\ stringCounter_ = 0
    /\ cgScopes = <<>>
    /\ breakLabel_ = -1
    /\ continueLabel_ = -1
    /\ stringLiterals_ = EmptyMap
    /\ cgJumps = <<>>
    /\ cgRegions = <<>>
    /\ cgPrints = <<>>
    /\ cgCalls = <<>>
    /\ cgPc = "constructed"
    /\ cgStmt \in {program \in CallPrograms : typeCheckProgram(program).ok}
    /\ cgCount = 0
    /\ IdleMachine

\* CodeGenerator::generate on the program: the header and the user functions
GenerateFunctions ==
    /\ cgPc = "constructed"
    /\ Generated(generateText(cgStmt, GenState))
    /\ cgPc' = "functions"
    /\ UNCHANGED <<cgStmt, cgCount, machineVars>>
    /\ UNCHANGED notCgVars

\* the rest of generate: the print routines, main, the data section
GenerateMain ==
    /\ cgPc = "functions"
    /\ Generated(generateRest(cgStmt, GenState, "ascending"))
    /\ cgPc' = "generated"
    /\ UNCHANGED <<cgStmt, cgCount, machineVars>>
    /\ UNCHANGED notCgVars

NextCall == GenerateFunctions \/ GenerateMain \/ Run \/ Step

-----------------------------------------------------------------------------
(* Integer arithmetic: a program of declarations generated, then run *)

ArithOps == {"+", "-", "*", "/", "%"}

\* 0 - MaxWord - 1: the least integer, written with literals and binary minus
LeastInt == Bin("-", Bin("-", IntLit(0), IntLit(MaxWord)), IntLit(1))

ArithLeaves == {Id("a"), Id("b"), IntLit(4)}

ArithFlat == {Bin(op, l, r) : op \in ArithOps, l \in ArithLeaves, r \in ArithLeaves}

ArithExprs ==
    ArithFlat
    \cup {Bin(op, l, r) : op \in ArithOps, l \in ArithLeaves, r \in ArithFlat}
    \cup {Bin(op, l, r) : op \in ArithOps, l \in ArithFlat, r \in ArithLeaves}

\* let a, let b, then let x of an expression over them; and S1 of the
\* specification, let x: int = 2 + 3 * 4
ArithPrograms ==
    {<<LetStmt("let", "a", T("INT"), va), LetStmt("let", "b", T("INT"), vb),
       LetStmt("let", "x", T("INT"), e)>> :
        va \in {IntLit(2), IntLit(MaxWord), LeastInt},
        vb \in {IntLit(3), Bin("-", IntLit(0), IntLit(1))},
        e \in ArithExprs}
    \cup {<<LetStmt("let", "x", T("INT"),
                    Bin("+", IntLit(2), Bin("*", IntLit(3), IntLit(4))))>>}

InitArith ==
    /\ output_ = <<>>
    /\ stackOffset_ = 0
    /\ labelCounter_ = 0
    /\ stringCounter_ = 0
    /\ cgScopes = <<>>
    /\ breakLabel_ = -1
    /\ continueLabel_ = -1
    /\ stringLiterals_ = EmptyMap
    /\ cgJumps = <<>>
    /\ cgRegions = <<>>
    /\ cgPrints = <<>>
    /\ cgCalls = <<>>
    /\ cgPc = "constructed"
    /\ cgStmt \in ArithPrograms
    /\ cgCount = 0
    /\ IdleMachine

-----------------------------------------------------------------------------
(* Whole programs: functions, blocks, strings and calls, generated and run *)

IntLet(kw, name, value) == LetStmt(kw, name, T("INT"), value)

\* func f() => int { let p: int = 1  return p }
FunctionLocal ==
    FunctionDecl(<<"f">>, <<>>, T("INT"),
                 <<IntLet("let", <<"p">>, IntLit(1)), ReturnStmt(Id(<<"p">>))>>)

\* func f(a: int, b: int) => int { let p: int = a  let q: int = b  return q }
FunctionTwo ==
    FunctionDecl(<<"f">>, <<Param(<<"a">>, T("INT")), Param(<<"b">>, T("INT"))>>,
                 T("INT"),
                 <<IntLet("let", <<"p">>, Id(<<"a">>)),
                   IntLet("let", <<"q">>, Id(<<"b">>)), ReturnStmt(Id(<<"q">>))>>)

FrameFunctions == {FunctionLocal, FunctionTwo, FunctionG}

\* the statements of main: declarations one after the other, of one name
\* twice, in the two branches of an if, in the body of a for
FrameBodies ==
    {<<IntLet("let", <<"x">>, IntLit(1))>>,
     <<IntLet("let", <<"x">>, IntLit(1)), IntLet("var", <<"x">>, IntLit(2))>>,
     <<IntLet("var", <<"x">>, IntLit(1)),
       IfElse(Bin(">", Id(<<"x">>), IntLit(0)),
              <<IntLet("let", <<"y">>, IntLit(2))>>,
              <<IntLet("let", <<"z">>, IntLit(3))>>),
       IntLet("let", <<"w">>, Id(<<"x">>))>>,
     <<ForLoop(IntLet("var", <<"i">>, IntLit(0)),
               Bin("<", Id(<<"i">>), IntLit(2)),
               AssignStmt(<<"i">>, Bin("+", Id(<<"i">>), IntLit(1))),
               <<IntLet("let", <<"i">>, IntLit(5))>>),
       IntLet("let", <<"y">>, IntLit(2))>>}

FramePrograms ==
    FrameBodies \cup {<<f>> \o body : f \in FrameFunctions, body \in FrameBodies}

StringLet(name, text) == LetStmt("let", name, T("STRING"), StrLit(text))

PrintOf(e) == ExprStmt(Call(Member(Id(<<"i", "o">>), "print"), <<e>>))

\* string literals: one content twice, two contents
StringPrograms ==
    {<<StringLet(<<"s">>, "hi"), StringLet(<<"t">>, "hi")>>,
     <<StringLet(<<"s">>, "hi"), StringLet(<<"t">>, "ho")>>,
     <<PrintOf(StrLit("hi")), PrintOf(StrLit("hi"))>>,
     <<FunctionDecl(<<"f">>, <<>>, T("INT"),
                    <<PrintOf(StrLit("hi")), ReturnStmt(IntLit(0))>>),
       PrintOf(StrLit("hi")), ExprStmt(Call(Id(<<"f">>), <<>>))>>}

\* var o: int = 1, then o.run() or o.run(2)
MemberPrograms ==
    {<<IntLet("var", <<"o">>, IntLit(1)),
       ExprStmt(Call(Member(Id(<<"o">>), "run"), arguments))>> :
        arguments \in {<<>>, <<IntLit(2)>>}}

\* func f(a: int, ..., h: int, k: int) => int { return k }: seven parameters
FunctionSeven ==
    FunctionDecl(<<"f">>,
                 [i \in 1..7 |-> Param((ParamNames \o <<(<<"k">>)>>)[i], T("INT"))],
                 T("INT"), <<ReturnStmt(Id(<<"k">>))>>)

\* a variable of the top level read or assigned in a function body, before
\* and after its declaration; the seventh parameter of a function read
ResolutionPrograms ==
    {<<IntLet("var", <<"x">>, IntLit(1)),
       FunctionDecl(<<"f">>, <<>>, T("INT"), <<ReturnStmt(Id(<<"x">>))>>),
       ExprStmt(Call(Id(<<"f">>), <<>>))>>,
     <<FunctionDecl(<<"f">>, <<>>, T("INT"), <<ReturnStmt(Id(<<"x">>))>>),
       IntLet("var", <<"x">>, IntLit(1))>>,
     <<IntLet("var", <<"x">>, IntLit(1)),
       FunctionDecl(<<"f">>, <<>>, T("INT"),
                    <<AssignStmt(<<"x">>, IntLit(2)), ReturnStmt(IntLit(0))>>)>>,
     <<FunctionSeven>>,
     <<IntLet("var", <<"x">>, IntLit(1)), AssignStmt(<<"x">>, Id(<<"x">>))>>}

\* func <name>() => int { return 0 }
FunctionNamed(name) ==
    FunctionDecl(name, <<>>, T("INT"), <<ReturnStmt(IntLit(0))>>)

\* calls of a callee never declared, of a function declared in the block of
\* an if or in the body of a function, of a function named main
CallTargetPrograms ==
    {<<ExprStmt(Call(Id(<<"g">>), <<>>))>>,
     <<IfElse(BoolLit(TRUE),
              <<FunctionNamed(<<"h">>), ExprStmt(Call(Id(<<"h">>), <<>>))>>, <<>>)>>,
     <<FunctionDecl(<<"f">>, <<>>, T("INT"),
                    <<FunctionNamed(<<"h">>), ReturnStmt(Call(Id(<<"h">>), <<>>))>>),
       ExprStmt(Call(Id(<<"f">>), <<>>))>>,
     <<FunctionNamed(MainName), ExprStmt(Call(Id(MainName), <<>>))>>,
     <<FunctionNamed(<<"f">>), ExprStmt(Call(Id(<<"f">>), <<>>))>>}

\* a statement that is one expression: sums and products, a call of two
\* arguments, calls of seven and of eight
StackPrograms ==
    {<<ExprStmt(Bin("+", IntLit(1), Bin("*", IntLit(2), IntLit(3))))>>,
     <<FunctionF(2),
       ExprStmt(Call(Id(<<"f">>), <<Bin("+", IntLit(1), IntLit(2)), IntLit(3)>>))>>,
     <<FunctionSeven,
       ExprStmt(Call(Id(<<"f">>), [i \in 1..7 |-> IntLit(i)]))>>,
     <<ExprStmt(Call(Id(<<"g">>), [i \in 1..8 |-> IntLit(i)]))>>}

ProgramUniverse ==
    FramePrograms \cup StringPrograms \cup MemberPrograms \cup ResolutionPrograms
        \cup CallTargetPrograms \cup StackPrograms

\* CodeGenerator::CodeGenerator, with a program the type checker accepts
InitWhole ==
    /\ output_ = <<>>
    /\ stackOffset_ = 0
    /\ labelCounter_ = 0
    /\ stringCounter_ = 0
    /\ cgScopes = <<>>
    /\ breakLabel_ = -1
    /\ continueLabel_ = -1
    /\ stringLiterals_ = EmptyMap
    /\ cgJumps = <<>>
    /\ cgRegions = <<>>
    /\ cgPrints = <<>>
    /\ cgCalls = <<>>
    /\ cgPc = "constructed"
    /\ cgStmt \in {program \in ProgramUniverse : typeCheckProgram(program).ok}
    /\ cgCount = 0
    /\ IdleMachine

\* CodeGenerator::generate called once more on the same object with the
\* same statements
GenerateAgain ==
    /\ cgPc = "generated"
    /\ cgCount = 0
    /\ \E functions \in
              {generateText(cgStmt,
                   [GenState EXCEPT !.jumps = <<>>, !.regions = <<>>,
                                    !.prints = <<>>, !.calls = <<>>])} :
          Generated(generateRest(cgStmt, functions, "ascending"))
    /\ cgPc' = "again"
    /\ cgCount' = 1
    /\ UNCHANGED <<cgStmt, machineVars>>
    /\ UNCHANGED notCgVars

NextWhole == GenerateFunctions \/ GenerateMain \/ GenerateAgain \/ Run \/ Step

-----------------------------------------------------------------------------
(* Specifications: one phase runs, the others stay idle *)

CompatStart == InitCompat /\ IdleTc /\ IdlePar /\ IdleLex /\ IdleCg /\ IdleCm

SpecCompat == CompatStart /\ [][NextCompat]_vars

TcStart == InitTc /\ IdleCompat /\ IdlePar /\ IdleLex /\ IdleCg /\ IdleCm

SpecTc == TcStart /\ [][NextTc]_vars

ParStart == InitPar /\ IdleCompat /\ IdleTc /\ IdleLex /\ IdleCg /\ IdleCm

SpecParser == ParStart /\ [][NextPar]_vars

ProgramStart == InitProgram /\ IdleCompat /\ IdleTc /\ IdleLex /\ IdleCg /\ IdleCm

SpecProgram == ProgramStart /\ [][NextProgram]_vars

CursorStart == InitCursor /\ IdleCompat /\ IdleTc /\ IdleLex /\ IdleCg /\ IdleCm

SpecCursor == CursorStart /\ [][NextCursor]_vars

LexStart == InitLex /\ IdleCompat /\ IdleTc /\ IdlePar /\ IdleCg /\ IdleCm

SpecLexer == LexStart /\ [][NextLex]_vars

CgStart == InitCg /\ IdleCompat /\ IdleTc /\ IdlePar /\ IdleLex /\ IdleCm

SpecCodegen == CgStart /\ [][NextCg]_vars

CmStart == InitCm /\ IdleCompat /\ IdleTc /\ IdlePar /\ IdleLex /\ IdleCg

SpecCompiler == CmStart /\ [][NextCm]_vars

CallStart == InitCall /\ IdleCompat /\ IdleTc /\ IdlePar /\ IdleLex /\ IdleCm

SpecCall == CallStart /\ [][NextCall]_vars

WholeStart == InitWhole /\ IdleCompat /\ IdleTc /\ IdlePar /\ IdleLex /\ IdleCm

SpecWhole == WholeStart /\ [][NextWhole]_vars

ArithStart == InitArith /\ IdleCompat /\ IdleTc /\ IdlePar /\ IdleLex /\ IdleCm

SpecArith == ArithStart /\ [][NextCall]_vars

-----------------------------------------------------------------------------
(* Properties of TypeInfo::isCompatible *)

\* C10: isCompatible(actual, expected) is true exactly when either side is
\* ANY, or the tags are equal, or actual = INT and expected = FLOAT, or
\* actual = CHAR and expected = STRING; the optional flags play no part; INT
\* to FLOAT holds and FLOAT to INT does not.
CompatibilityRelation ==
    cDone =>
        /\ cResult <=> \/ cActual.primitive = "ANY" \/ cExpected.primitive = "ANY"
                       \/ cActual.primitive = cExpected.primitive
                       \/ cActual.primitive = "INT" /\ cExpected.primitive = "FLOAT"
                       \/ cActual.primitive = "CHAR" /\ cExpected.primitive = "STRING"
        /\ cActual.primitive = "FLOAT" /\ cExpected.primitive = "INT" => ~cResult
        /\ cActual.primitive = "STRING" /\ cExpected.primitive = "CHAR" => ~cResult

\* an optional INT has been found compatible with a plain FLOAT
CompatibilityWitness ==
    /\ cDone
    /\ cActual = [primitive |-> "INT", isOptional |-> TRUE]
    /\ cExpected = [primitive |-> "FLOAT", isOptional |-> FALSE]
    /\ cResult

-----------------------------------------------------------------------------
(* Properties of the type checker *)

\* the keyword (or "param") that declared the binding a name resolves to
DeclaredBy(kws, name) ==
    LET hits == {i \in 1..Len(kws) : name \in DOMAIN kws[i]}
    IN IF hits = {} THEN "none"
       ELSE kws[CHOOSE i \in hits : \A j \in hits : j <= i][name]

BoolOrAny(r) == r.ok /\ r.type.primitive \in {"BOOL", "ANY"}

\* C1: in a program that check accepts, every call of a function passes as
\* many arguments as the function has parameters.  Stated here on the calls
\* that stand after the function's declaration, where the checker knows
\* the signature.
AritySoundness ==
    tcPc = "accepted" => \A c \in tcCalls : c[2] = c[3]

\* C7: when a block has been checked every name resolves as it did before
\* the block was entered (names declared inside are gone, outer bindings
\* are back with their type and mutability); while a scope is open, the
\* names it declares resolve to its own bindings.
ScopeDiscipline ==
    /\ tcOuter # <<>> =>
          \A n \in TcNames : lookupVariable(scopes_, n) = lookupVariable(tcOuter, n)
    /\ scopes_ # <<>> =>
          \A n \in DOMAIN scopes_[Len(scopes_)] :
              lookupVariable(scopes_, n) =
                  [found |-> TRUE, type |-> scopes_[Len(scopes_)][n].type,
                   mutable_ |-> scopes_[Len(scopes_)][n].mutable_]

\* a block that re-declared x as a mutable bool has ended, and x is the
\* outer immutable int again
ScopeDisciplineWitness ==
    /\ tcOuter # <<>>
    /\ "x" \in DOMAIN tcPopped
    /\ tcPopped["x"] = VariableInfo(T("BOOL"), TRUE)
    /\ "y" \in DOMAIN tcPopped
    /\ lookupVariable(scopes_, "x") =
          [found |-> TRUE, type |-> T("INT"), mutable_ |-> FALSE]
    /\ ~lookupVariable(scopes_, "y").found

IsLogical(s) ==
    s.kind = "Expr" /\ s.expr.kind = "Binary" /\ s.expr.op \in {"&&", "||"}

\* C8: an && or || expression is accepted only if both its operands have
\* type BOOL or ANY, and is rejected with a type error otherwise.
LogicalOperandsBoolean ==
    tcPc \in {"checked", "error"} /\ IsLogical(stmt) =>
        (tcPc = "checked" <=>
            /\ BoolOrAny(checkExpression(stmt.expr.left, scopes_, functions_))
            /\ BoolOrAny(checkExpression(stmt.expr.right, scopes_, functions_)))

\* C9: target = value is accepted iff the target resolves, its binding was
\* declared with var, and the value's type is compatible with the binding's;
\* an unresolved target raises "Undefined variable", one declared by let,
\* const or as a parameter raises "Cannot assign to immutable variable:
\* <name>", and the scope tables are as they were before the statement.
AssignmentContract ==
    tcPc \in {"checked", "error"} /\ stmt.kind = "Assign" =>
        LET var == lookupVariable(tcBefore, stmt.target)
            kw == DeclaredBy(tcKw, stmt.target)
            v == checkExpression(stmt.value, tcBefore, functions_)
        IN /\ tcPc = "checked" <=>
                 /\ var.found
                 /\ kw = "var"
                 /\ v.ok
                 /\ isCompatible(v.type, var.type)
           /\ ~var.found => tcError = Err("Undefined variable: ", stmt.target)
           /\ var.found /\ kw \in {"let", "const", "param"} =>
                 tcError = Err("Cannot assign to immutable variable: ", stmt.target)
           /\ var.found <=> kw # "none"
           /\ scopes_ = tcBefore

\* an assignment to a var declared in an enclosing scope has been accepted
AssignmentWitness ==
    /\ tcPc = "checked"
    /\ stmt = AssignStmt("x", IntLit(1))
    /\ DeclaredBy(tcKw, "x") = "var"
    /\ Len(scopes_) > 1
    /\ "x" \notin DOMAIN scopes_[Len(scopes_)]

\* the bodies of function statements that are open, outermost first
FunctionFrames == {i \in 1..Len(tcFrames) : tcFrames[i].kind = "function"}

\* the declared return type of the innermost enclosing function
EnclosingReturnType ==
    tcFrames[CHOOSE i \in FunctionFrames : \A k \in FunctionFrames : k <= i].returnType

ReturnAllowed ==
    /\ FunctionFrames # {}
    /\ IF stmt.value # NoExpr
       THEN isCompatible(stmt.value.type, EnclosingReturnType)
       ELSE EnclosingReturnType.primitive = "VOID"

\* C11: a return statement outside a function body raises a type error;
\* inside one, a return with a value is accepted iff the value's type is
\* compatible with the declared return type of the enclosing function, one
\* without a value iff that type is VOID; and currentReturnType_ and
\* inFunction_ are, once a function statement has been checked, what they
\* were before it: those of the function still open, VOID and false at top
\* level.
ReturnContract ==
    /\ (stmt.kind = "Return" /\ tcPc \in {"checked", "error"}) =>
          /\ tcPc = "checked" <=> ReturnAllowed
          /\ tcPc = "error" => tcError # NoErr
    /\ tcPc # "idle" =>
          /\ inFunction_ = (FunctionFrames # {})
          /\ currentReturnType_ =
                IF FunctionFrames # {} THEN EnclosingReturnType ELSE T("VOID")

\* return 1 was accepted as the third statement of a program, in the body
\* of an int function declared at top level
ReturnContractWitness ==
    /\ tcPc = "checked"
    /\ stmt = ReturnStmt(IntLit(1))
    /\ Len(tcFrames) = 1
    /\ tcFrames[1].kind = "function"
    /\ tcFrames[1].returnType = T("INT")
    /\ tcFrames[1].savedInFunction = FALSE
    /\ tcCount = 3

-----------------------------------------------------------------------------
(* Properties of the expression parser *)

\* the precedence level of a binary operator: || 1, && 2, == != 3,
\* relational 4, + - 5, * / % 6
Level(type) ==
    CASE type = "OR" -> 1
      [] type = "AND" -> 2
      [] type \in {"EQ", "NE"} -> 3
      [] type \in {"LT", "GT", "LE", "GE"} -> 4
      [] type \in {"PLUS", "MINUS"} -> 5
      [] type \in {"STAR", "SLASH", "PERCENT"} -> 6

\* the tree of the i-th operand
OperandNode(shape, i) ==
    LET x == Id(OperandName(i))
    IN CASE shape = "plain" -> x
         [] shape = "unary" -> Un("!", Un("-", x))
         [] shape = "group" -> Bin("||", x, IntLit(7))
         [] shape = "call" ->
              Call(Member(Id(<<"i", "o">>), <<"f">>), <<x, Bin("+", x, IntLit(42))>>)

RECURSIVE TreeOf(_, _, _, _)
\* the tree of operands lo..hi: its root is the last of the operators of
\* the lowest level between them
TreeOf(ops, shape, lo, hi) ==
    IF lo = hi THEN OperandNode(shape, lo)
    ELSE LET lowest == CHOOSE k \in lo..(hi - 1) :
                          /\ \A j \in lo..(hi - 1) : Level(ops[k]) <= Level(ops[j])
                          /\ \A j \in (k + 1)..(hi - 1) : Level(ops[k]) < Level(ops[j])
         IN Bin(opStrOf(ops[lowest]), TreeOf(ops, shape, lo, lowest),
                TreeOf(ops, shape, lowest + 1, hi))

\* C6: parseExpression builds, for operands joined by binary operators, the
\* tree in which an operator of a higher level binds tighter and operators
\* of one level associate to the left; a op1 b op2 c is (a op1 b) op2 c when
\* prec(op1) >= prec(op2) and a op1 (b op2 c) when prec(op1) < prec(op2).
PrecedenceAndAssociativity ==
    parPc = "done" =>
        /\ parsed.ok
        /\ peek(tokens_, parsed.pos).type = "END_OF_FILE"
        /\ parsed.node = TreeOf(parOps, parShape, 1, Len(parOps) + 1)
        /\ Len(parOps) = 2 =>
              LET a == OperandNode(parShape, 1)
                  b == OperandNode(parShape, 2)
                  c == OperandNode(parShape, 3)
                  op1 == opStrOf(parOps[1])
                  op2 == opStrOf(parOps[2])
              IN parsed.node =
                    IF Level(parOps[1]) >= Level(parOps[2])
                    THEN Bin(op2, Bin(op1, a, b), c)
                    ELSE Bin(op1, a, Bin(op2, b, c))

\* x1 - x2 * x3 - x4 has been parsed as (x1 - (x2 * x3)) - x4
PrecedenceWitness ==
    /\ parPc = "done"
    /\ parOps = <<"MINUS", "STAR", "MINUS">>
    /\ parShape = "plain"
    /\ parsed.ok
    /\ parsed.node =
          Bin("-", Bin("-", Id(OperandName(1)),
                        Bin("*", Id(OperandName(2)), Id(OperandName(3)))),
              Id(OperandName(4)))

-----------------------------------------------------------------------------
(* Properties of the statement parser *)

\* C12: a SEMICOLON token between two statements, at top level or inside a
\* block, is accepted by Parser::parse, and the statement list parsed is the
\* one parsed from the same program without the semicolon.
SemicolonsOptional ==
    (parPc = "done" /\ tokens_ # parPlain) =>
        /\ parsed.ok
        /\ parsed.node = parse(parPlain, 1, <<>>).node

\* every program of InitProgram is accepted when it holds no semicolon
PlainProgramsParse ==
    (parPc = "done" /\ parPlain # <<>> /\ tokens_ = parPlain) =>
        parsed.ok /\ peek(tokens_, parsed.pos).type = "END_OF_FILE"

-----------------------------------------------------------------------------
(* Properties of the lexer *)

Final(token) == token.type \in {"END_OF_FILE", "ERROR"}

NotAfter(a, b) == a.line < b.line \/ (a.line = b.line /\ a.column <= b.column)

\* C18: in the list tokenize builds, each token's (line, column) is not after
\* that of the token following it, whatever lies between the two: newlines,
\* comments, or the lines of a string literal
LocationMonotonicity ==
    \A i \in 1..(Len(tokens) - 1) :
        NotAfter(tokens[i].location, tokens[i + 1].location)

\* tokenize has returned a list in which a token follows a string literal
\* that holds a newline, on a later line
LocationWitness ==
    /\ lexPc = "returned"
    /\ \E i \in 1..(Len(tokens) - 1) :
          /\ tokens[i].type = "STRING"
          /\ tokens[i].value = <<"\n">>
          /\ tokens[i + 1].location.line > tokens[i].location.line

-----------------------------------------------------------------------------
(* Properties of the code generator *)

\* the value of A at the test of A, and of B at the test of B
LeftResult(r) == raxAt[r.aTest]

RightResult(r) == raxAt[r.bTest]

\* B has to be evaluated: A does not determine the outcome
NeedsRight(r) == IF r.op = "&&" THEN LeftResult(r) # 0 ELSE LeftResult(r) = 0

LogicalValue(r) ==
    IF r.op = "&&" THEN LeftResult(r) # 0 /\ RightResult(r) # 0
    ELSE LeftResult(r) # 0 \/ RightResult(r) # 0

\* C2: in the code emitted for A && B the instructions of B are executed
\* iff A's result is nonzero, and for A || B iff A's result is zero; where
\* the code of the expression ends rax is exactly 0 or 1 and is the logical
\* value of the expression.
ShortCircuit ==
    cgPc \in {"running", "exited", "fault"} =>
        \A i \in 1..Len(cgRegions) :
            LET r == cgRegions[i]
            IN /\ ip \in r.bFirst..r.bTest =>
                     r.aTest \in DOMAIN raxAt /\ NeedsRight(r)
               /\ prev = r.aTest + 1 => (ip = r.bFirst <=> NeedsRight(r))
               /\ prev = r.last =>
                     /\ regs["rax"] \in {0, 1}
                     /\ regs["rax"] = 1 <=> LogicalValue(r)

\* (0 && x) || x with x = 2 has run: the inner B was skipped, the outer B
\* was evaluated, and rax is 1 at the end of the outer expression
ShortCircuitWitness ==
    /\ cgPc = "running"
    /\ cgStmt = ExprStmt(Bin("||", Bin("&&", IntLit(0), Id("x")), Id("x")))
    /\ Len(cgRegions) = 2
    /\ \E i, o \in 1..Len(cgRegions) :
          /\ cgRegions[i].op = "&&"
          /\ cgRegions[i].aTest \in DOMAIN raxAt
          /\ cgRegions[i].bTest \notin DOMAIN raxAt
          /\ raxAt[cgRegions[i].aTest] = 0
          /\ cgRegions[o].op = "||"
          /\ prev = cgRegions[o].last
          /\ cgRegions[o].bTest \in DOMAIN raxAt
          /\ raxAt[cgRegions[o].bTest] = 2
          /\ regs["rax"] = 1

\* the label the jump of a break or continue has to name: the end label of
\* the innermost open loop, the start label of a while loop
JumpTarget(j) ==
    LET loop == j.loops[Len(j.loops)]
    IN IF j.stmt = "break" THEN loop.end
       ELSE IF loop.kind = "while" THEN loop.start
       ELSE output_[j.at].a

\* C3: the jump emitted for a break inside a while or for body names the end
\* label of the innermost enclosing loop, the jump of a continue names that
\* loop's start label (while), and the label named is defined in the
\* emitted assembly, also in nested loops and after an inner loop ended.
BreakContinueTargeting ==
    \A i \in 1..Len(cgJumps) :
        LET j == cgJumps[i]
        IN j.loops # <<>> =>
              /\ output_[j.at].op = "jmp"
              /\ output_[j.at].a = JumpTarget(j)
              /\ LabelIndex(output_, output_[j.at].a) # 0

\* the static type of the argument of a print call: the type of a literal,
\* the declared type of a local, INT for the sums of the programs generated
StaticType(p) ==
    IF p.argument.kind = "Literal" THEN p.argument.type.primitive
    ELSE IF p.argument.kind = "Identifier"
    THEN LET v == lookupLocalFrom(p.scopes, Len(p.scopes), p.argument.name)
         IN IF v.found THEN v.var.type.primitive ELSE "ANY"
    ELSE "INT"

PrinterOf(primitive) ==
    CASE primitive = "STRING" -> "_print_str"
      [] primitive = "FLOAT" -> "_print_float"
      [] primitive = "BOOL" -> "_print_bool"
      [] OTHER -> "_print_int"

\* C4: for module.print(e) and module.println(e) the printer called is the
\* one of the static type of e (STRING _print_str, FLOAT _print_float, BOOL
\* _print_bool, anything else _print_int) for every argument expression e,
\* an identifier declared with that type included.
PrintDispatch ==
    \A i \in 1..Len(cgPrints) :
        /\ output_[cgPrints[i].at].op = "call"
        /\ output_[cgPrints[i].at].a = PrinterOf(StaticType(cgPrints[i]))

-----------------------------------------------------------------------------
(* Properties of the compiler driver *)

\* the phases started so far are the first phases of PhaseOrder
StartedInOrder ==
    /\ Len(cmPhases) <= Len(PhaseOrder)
    /\ \A i \in 1..Len(cmPhases) : cmPhases[i].phase = PhaseOrder[i]

\* every phase before the last one started returned true
EarlierSucceeded ==
    \A i \in 1..(Len(cmPhases) - 1) : cmPhases[i].outcome = "true"

\* a phase that did not return true made compile return false
FailureReturnsFalse ==
    \A i \in 1..Len(cmPhases) :
        cmPhases[i].outcome # "true" => cmReturn = "false"

\* C13: compile runs the phases in their order, starts a phase only after
\* every earlier phase returned success, and returns false as soon as one
\* phase fails, starting no later phase
FirstErrorStops == StartedInOrder /\ EarlierSucceeded /\ FailureReturnsFalse

\* the order of the phases and the stop after the first failure, without
\* the value compile returns
PhasesStopAtFirstFailure == StartedInOrder /\ EarlierSucceeded

\* C14: whenever compile returns false, whichever phase failed, neither
\* the assembly file nor the object file of this compilation is on disk
NoPartialOutputs == cmReturn = "false" => disk \cap {"asm", "obj"} = {}

\* a failure before the assembly file is written leaves no file
EarlyFailureLeavesNothing ==
    (cmReturn = "false" /\ cmPhases[Len(cmPhases)].phase \notin {"assemble", "link"})
        => disk = {}

\* some phase started did not return true
SomePhaseFailed == \E i \in 1..Len(cmPhases) : cmPhases[i].outcome # "true"

\* C15: every error raised in a phase, the conversion of an integer literal
\* out of the 64-bit range included, is caught inside compile, which returns
\* false, and the process exits with code 1; no exception leaves compile
EveryFailureReported ==
    /\ cmReturn # "uncaught"
    /\ (cmPc \in {"returned", "exited"} /\ SomePhaseFailed) => cmReturn = "false"
    /\ cmPc = "exited" => exitCode = (IF SomePhaseFailed THEN "1" ELSE "0")

\* the failures compile does catch end in exit code 1, success in 0
CaughtFailureExitsWithOne ==
    (cmPc = "exited" /\ cmReturn # "uncaught")
        => exitCode = (IF SomePhaseFailed THEN "1" ELSE "0")

\* the lines of the assembly that define a string literal or a label made
\* by newLabel
CountedLines(assembly) ==
    {i \in 1..Len(assembly) : assembly[i].op \in {"string", "label"}}

Definitions(assembly) ==
    {i \in 1..Len(assembly) : assembly[i].op \in {"label", "routine", "data", "string"}}

\* the label a line defines: the schemas differ in their first characters,
\* so two labels are one text when schema, number and name agree
LabelOf(line) ==
    IF line.op \in {"label", "string"}
    THEN [prefix |-> line.a.prefix, num |-> line.a.n, name |-> <<>>]
    ELSE [prefix |-> line.a, num |-> -1,
          name |-> IF line.op = "routine" THEN line.b ELSE <<>>]

\* generateCode has run on a program the parser and the type checker accepted
AssemblyGenerated ==
    /\ Len(cmPhases) >= 4
    /\ cmPhases[3].outcome = "true"
    /\ assembly_ # <<>>

\* C17: in the assembly generate emits for a program the parser and the type
\* checker accept, no label is defined twice
LabelUniqueness ==
    AssemblyGenerated =>
        \A i, j \in Definitions(assembly_) :
            i # j => LabelOf(assembly_[i]) # LabelOf(assembly_[j])

\* the labels made by newLabel and newStringLabel are defined once each
CounterLabelsUnique ==
    AssemblyGenerated =>
        \A i, j \in Definitions(assembly_) :
            (i # j /\ assembly_[i].op \in {"label", "string"})
                => LabelOf(assembly_[i]) # LabelOf(assembly_[j])

-----------------------------------------------------------------------------
(* Properties of the calls of user functions *)

\* the function of a program that a call names
Callee(program, name) ==
    CHOOSE s \in {program[i] : i \in 1..Len(program)} :
        s.kind = "Function" /\ s.name = name

RECURSIVE ValueOf(_, _, _)
\* the value of an integer expression where the variables hold env, in
\* arithmetic modulo 2 ^ WordBits (0 stands for a division by zero); a
\* function here returns the value of the expression it returns
ValueOf(e, env, program) ==
    CASE e.kind = "Literal" -> e.value
      [] e.kind = "Identifier" -> env[e.name]
      [] e.kind = "Binary" ->
           LET l == ValueOf(e.left, env, program)
               r == ValueOf(e.right, env, program)
           IN (CASE e.op = "+" -> Wrap(l + r)
                 [] e.op = "-" -> Wrap(l - r)
                 [] e.op = "*" -> Wrap(l * r)
                 [] e.op = "/" -> IF r = 0 THEN 0 ELSE Wrap(Quotient(l, r))
                 [] e.op = "%" -> IF r = 0 THEN 0
                                  ELSE Wrap(l - r * Quotient(l, r)))
      [] e.kind = "Call" ->
           LET f == Callee(program, e.callee.name)
               bound == [n \in {f.params[i].name : i \in 1..Len(f.params)} |->
                           LET i == CHOOSE i \in 1..Len(f.params) :
                                        f.params[i].name = n
                           IN ValueOf(e.arguments[i], env, program)]
           IN ValueOf(f.body[1].value, bound, program)

\* the call whose call instruction is the line at
CallAt(at) == CHOOSE c \in {cgCalls[i] : i \in 1..Len(cgCalls)} : c.at = at

\* control is at the call instruction of a call of a user function
AtCall == cgPc = "running" /\ output_[ip].op = "call_user"

\* C19: when control reaches the call instruction of a call of a user
\* function with at most six arguments, the i-th parameter register holds
\* the value of the i-th argument, whatever expressions the arguments are
RegisterArguments ==
    AtCall =>
        \A i \in 1..Len(CallAt(ip).arguments) :
            i <= Len(paramRegs) =>
                regs[paramRegs[i]] = ValueOf(CallAt(ip).arguments[i], EmptyMap, cgStmt)

\* the first argument is in rdi when none of the arguments after it is a call
FirstArgumentArrives ==
    (AtCall /\ \A i \in 2..Len(CallAt(ip).arguments) :
                   CallAt(ip).arguments[i].kind # "Call")
        => regs["rdi"] = ValueOf(CallAt(ip).arguments[1], EmptyMap, cgStmt)

\* arguments that are all literals arrive in their registers
LiteralArgumentsArrive ==
    (AtCall /\ \A i \in 1..Len(CallAt(ip).arguments) :
                   CallAt(ip).arguments[i].kind = "Literal")
        => \A i \in 1..Len(CallAt(ip).arguments) :
               regs[paramRegs[i]] = CallAt(ip).arguments[i].value

-----------------------------------------------------------------------------
(* Properties of the integer arithmetic *)

RECURSIVE Divisors(_, _)
\* the values of the divisors of the / and % in e
Divisors(e, env) ==
    IF e.kind # "Binary" THEN {}
    ELSE Divisors(e.left, env) \cup Divisors(e.right, env)
         \cup (IF e.op \in {"/", "%"} THEN {ValueOf(e.right, env, <<>>)} ELSE {})

RECURSIVE Quotients(_, _)
\* the quotients of the / and % in e, before they are stored in a register
Quotients(e, env) ==
    IF e.kind # "Binary" THEN {}
    ELSE Quotients(e.left, env) \cup Quotients(e.right, env)
         \cup (IF e.op \in {"/", "%"} /\ ValueOf(e.right, env, <<>>) # 0
               THEN {Quotient(ValueOf(e.left, env, <<>>),
                              ValueOf(e.right, env, <<>>))}
               ELSE {})

RECURSIVE LocalsBefore(_, _)
\* what the variables declared by the first k statements hold
LocalsBefore(program, k) ==
    IF k = 0 THEN EmptyMap
    ELSE LET env == LocalsBefore(program, k - 1)
         IN MapPut(env, program[k].name, ValueOf(program[k].value, env, <<>>))

\* the declaration of main whose code holds the line at: one store ends each
LetAt(at) ==
    Cardinality({i \in RoutineIndex(output_, "main", <<>>)..(at - 1) :
                    output_[i].op = "store"}) + 1

\* the line at ip belongs to the code of a declaration of main
InLet ==
    /\ cgPc \in {"running", "fault"}
    /\ ip > RoutineIndex(output_, "main", <<>>)
    /\ LetAt(ip) <= Len(cgStmt)

\* rax holds the value of its expression after the code of a declaration
Lowered ==
    IF cgPc = "fault" THEN FALSE
    ELSE output_[ip].op = "store"
            => regs["rax"] = ValueOf(cgStmt[LetAt(ip)].value,
                                     LocalsBefore(cgStmt, LetAt(ip) - 1), <<>>)

\* C20: the code of an expression of integer literals and local variables
\* under + - * / %, no divisor of which is zero, runs to its end and leaves
\* in rax the value of the expression in arithmetic modulo 2 ^ WordBits
IntegerLowering ==
    (InLet /\ 0 \notin Divisors(cgStmt[LetAt(ip)].value,
                                LocalsBefore(cgStmt, LetAt(ip) - 1)))
        => Lowered

\* the same where every quotient fits a register
FittingQuotientsLowered ==
    (InLet /\ 0 \notin Divisors(cgStmt[LetAt(ip)].value,
                                LocalsBefore(cgStmt, LetAt(ip) - 1))
           /\ Quotients(cgStmt[LetAt(ip)].value,
                        LocalsBefore(cgStmt, LetAt(ip) - 1)) \subseteq MinWord..MaxWord)
        => Lowered

\* 2 + 3 * 4 leaves 14
PrecedenceExample ==
    (InLet /\ Len(cgStmt) = 1 /\ output_[ip].op = "store") => regs["rax"] = 14

PrecedenceExampleRuns ==
    InLet /\ Len(cgStmt) = 1 /\ output_[ip].op = "store" /\ regs["rax"] = 14

\* sums, differences and products wrap around
WrappedResultStored ==
    /\ InLet
    /\ cgPc = "running"
    /\ LetAt(ip) = 3
    /\ output_[ip].op = "store"
    /\ cgStmt[3].value = Bin("+", Id("a"), IntLit(4))
    /\ cgStmt[1].value = IntLit(MaxWord)
    /\ regs["rax"] = MinWord + 3

-----------------------------------------------------------------------------
(* Properties of whole programs *)

\* a program has been generated
WholeGenerated == cgPc \in {"generated", "running", "exited", "fault"}

\* the last line at or before i that opens a routine: the frame of line i
FrameOf(i) ==
    LET opens == {j \in 1..i : output_[j].op = "routine"}
    IN IF opens = {} THEN 0 ELSE CHOOSE j \in opens : \A k \in opens : k <= j

\* the comment or routine line that stands last before line i
HeadOf(i) ==
    LET heads == {j \in 1..(i - 1) : output_[j].op \in {"comment", "routine"}}
    IN IF heads = {} THEN 0 ELSE CHOOSE j \in heads : \A k \in heads : k <= j

\* line i is the store of a declaration: of a parameter (no comment since
\* the routine began) or of a let (the comment of the statement is let)
Declares(i) ==
    /\ output_[i].op = "store"
    /\ HeadOf(i) # 0
    /\ IF output_[HeadOf(i)].op = "routine" THEN TRUE
       ELSE Head(output_[HeadOf(i)].a) = "let "

Declarations == {i \in 1..Len(output_) : Declares(i)}

\* how many locals the frame of line i has declared up to line i
NthLocal(i) == Cardinality({j \in Declarations : FrameOf(j) = FrameOf(i) /\ j <= i})

IsMainFrame(i) ==
    IF FrameOf(i) = 0 THEN FALSE ELSE output_[FrameOf(i)].a = "main"

\* C21: in every frame, main and each user function, the k-th declared
\* local (parameters first) is stored at [rbp-8k], whatever other functions
\* the program holds
SequentialFrameOffsets ==
    WholeGenerated => \A i \in Declarations : output_[i].a = 8 * NthLocal(i)

\* the frames of the user functions are laid out so
FunctionFramesSequential ==
    WholeGenerated =>
        \A i \in Declarations : ~IsMainFrame(i) => output_[i].a = 8 * NthLocal(i)

\* so is main in a program without user functions
MainAloneSequential ==
    (WholeGenerated /\ cgStmt[1].kind # "Function") =>
        \A i \in Declarations : output_[i].a = 8 * NthLocal(i)

\* the lines that load the address of a string literal, and the lines of
\* .data that define one
StringLoads == {i \in 1..Len(output_) : output_[i].op = "lea"}

StringDefinitions == {i \in 1..Len(output_) : output_[i].op = "string"}

\* the content the literal loaded at line i has
ContentAt(i) == stringLiterals_[output_[i].b]

\* C22: two string literals of one content in a program are loaded through
\* one .LCk label, and .data holds that content once
StringInterning ==
    WholeGenerated =>
        /\ \A i, j \in StringLoads :
               ContentAt(i) = ContentAt(j) => output_[i].b = output_[j].b
        /\ \A i, j \in StringDefinitions :
               output_[i].b = output_[j].b => i = j

\* every literal loaded is defined in .data, once, with its content
EveryLiteralDefined ==
    WholeGenerated =>
        \A i \in StringLoads :
            \E j \in StringDefinitions :
                /\ output_[j].a = output_[i].b
                /\ output_[j].b = ContentAt(i)
                /\ \A k \in StringDefinitions : output_[k].a = output_[i].b => k = j

\* literals of different contents have different labels
DifferentContentsDifferentLabels ==
    WholeGenerated =>
        \A i, j \in StringLoads :
            output_[i].b = output_[j].b => ContentAt(i) = ContentAt(j)

\* the calls generateCall emitted for a callee object.property
MemberCalls ==
    {c \in {cgCalls[i] : i \in 1..Len(cgCalls)} : c.callee.kind = "Member"}

\* the lines generateCall emitted for a call before its call instruction
LinesBefore(c) == c.from..(c.at - 1)

\* C23: for a call of object.property, property neither print nor println,
\* generateCall emits the code that evaluates the object and then
\* call _user_<property>
MemberCallDispatch ==
    WholeGenerated =>
        \A c \in MemberCalls :
            /\ \E i \in LinesBefore(c) : output_[i].op = "load"
            /\ output_[c.at].op = "call_user"

\* the arguments are evaluated and a call instruction follows them
MemberCallEmitsCall ==
    WholeGenerated =>
        \A c \in MemberCalls :
            /\ output_[c.at].op = "call"
            /\ c.arguments # <<>> =>
                   \E i \in LinesBefore(c) :
                       output_[i].op = "mov_reg" /\ output_[i].a = "rdi"

RECURSIVE readsResolved(_, _, _), argumentsResolved(_, _, _, _)

\* how many identifiers of e checkExpression looks up and finds
readsResolved(e, sc, fn) ==
    CASE e.kind = "Identifier" -> IF lookupVariable(sc, e.name).found THEN 1 ELSE 0
      [] e.kind = "Binary" ->
           readsResolved(e.left, sc, fn) + readsResolved(e.right, sc, fn)
      [] e.kind = "Unary" -> readsResolved(e.operand, sc, fn)
      [] e.kind = "Call" ->
           IF e.callee.kind = "Identifier" /\ lookupFunction(fn, e.callee.name).found
           THEN argumentsResolved(e.arguments, 1, sc, fn) ELSE 0
      [] OTHER -> 0

argumentsResolved(arguments, i, sc, fn) ==
    IF i > Len(arguments) THEN 0
    ELSE readsResolved(arguments[i], sc, fn)
         + argumentsResolved(arguments, i + 1, sc, fn)

\* reads and assignment targets found so far, with the tables of the checker
Uses(reads, writes, sc, fn) ==
    [reads |-> reads, writes |-> writes, scopes |-> sc, functions |-> fn]

RECURSIVE usesEach(_, _, _), usesAny(_, _)

\* the statements from i on, checked as checkStatement checks them
usesEach(statements, i, u) ==
    IF i > Len(statements) THEN u
    ELSE usesEach(statements, i + 1, usesAny(statements[i], u))

usesAny(s, u) ==
    LET read(e, v) ==
            [v EXCEPT !.reads = @ + readsResolved(e, v.scopes, v.functions)]
        inBlock(body, v) ==
            [usesEach(body, 1, v) EXCEPT !.scopes = exitScope(@)]
        entered(v) == [v EXCEPT !.scopes = enterScope(@)]
    IN CASE s.kind = "Let" ->
              [read(s.value, u) EXCEPT
                  !.scopes = declareVariable(@, s.name, s.type, s.mutable_)]
         [] s.kind = "Assign" ->
              [read(s.value, u) EXCEPT
                  !.writes = @ + (IF lookupVariable(u.scopes, s.target).found
                                  THEN 1 ELSE 0)]
         [] s.kind = "Expr" -> read(s.expr, u)
         [] s.kind = "Return" -> IF s.value # NoExpr THEN read(s.value, u) ELSE u
         [] s.kind = "Function" ->
              inBlock(s.body,
                  [u EXCEPT !.scopes = declareParams(enterScope(@), s.params, 1),
                            !.functions =
                                declareFunction(@, s.name,
                                    [i \in 1..Len(s.params) |-> s.params[i].type],
                                    s.returnType)])
         [] s.kind = "While" -> inBlock(s.body, entered(read(s.condition, u)))
         [] s.kind = "If" ->
              (IF s.elseBranch = <<>>
               THEN inBlock(s.thenBranch, entered(read(s.condition, u)))
               ELSE inBlock(s.elseBranch,
                        entered(inBlock(s.thenBranch,
                                        entered(read(s.condition, u))))))
         [] s.kind = "For" ->
              inBlock(s.body,
                  usesAny(s.update,
                      read(s.condition, usesAny(s.init, entered(u)))))
         [] OTHER -> u

\* the uses TypeChecker::check resolves in the program
Resolved == usesEach(cgStmt, 1, Uses(0, 0, enterScope(<<>>), EmptyMap))

\* the lines generateIdentifier emitted for a local it found, and the lines
\* generateAssignStmt emitted for a target it found
SlotLoads == {i \in 1..Len(output_) : output_[i].op = "load"}

SlotStores ==
    {i \in 1..Len(output_) :
        /\ output_[i].op = "store"
        /\ output_[i].b = "rax"
        /\ HeadOf(i) # 0
        /\ output_[HeadOf(i)].op = "comment"
        /\ Head(output_[HeadOf(i)].a) = "assign "}

\* C24: every identifier the type checker resolves to a variable or a
\* parameter, read or assigned, is found by lookupLocal: the reads are
\* loads from a slot and the assignments stores to one
SameNamesResolved ==
    WholeGenerated =>
        /\ Cardinality(SlotLoads) = Resolved.reads
        /\ Cardinality(SlotStores) = Resolved.writes

\* it is so in the programs without functions
MainNamesResolved ==
    (WholeGenerated /\ \A i \in 1..Len(cgStmt) : cgStmt[i].kind # "Function") =>
        /\ Cardinality(SlotLoads) = Resolved.reads
        /\ Cardinality(SlotStores) = Resolved.writes

\* and for the first six parameters of a function
ParametersResolved ==
    (WholeGenerated /\ cgStmt \in {<<FunctionG>> \o body : body \in FrameBodies}) =>
        /\ Cardinality(SlotLoads) = Resolved.reads
        /\ Cardinality(SlotStores) = Resolved.writes

\* the lines call _user_<name>
UserCalls == {i \in 1..Len(output_) : output_[i].op = "call_user"}

\* the functions declared among the statements of the top level
TopLevelFunctions ==
    {cgStmt[i].name : i \in {j \in 1..Len(cgStmt) : cgStmt[j].kind = "Function"}}

\* C25: every call _user_<name> emitted for a call of a bare identifier has
\* its label _user_<name>: in the same output
CallTargetsDefined ==
    WholeGenerated =>
        \A i \in UserCalls : RoutineIndex(output_, "_user_", output_[i].a) # 0

\* the calls of top-level functions not named main have their labels
TopLevelTargetsDefined ==
    WholeGenerated =>
        \A i \in UserCalls :
            output_[i].a \in TopLevelFunctions \ {MainName} =>
                RoutineIndex(output_, "_user_", output_[i].a) # 0

RECURSIVE Operands(_, _, _), ArgumentOperands(_, _, _, _)

\* the operands of ! and the left operands of && and || in e: all of them,
\* or those only that checkExpression visits, which leaves out the
\* arguments of a call whose callee is no function it knows
Operands(e, fn, all) ==
    CASE e.kind = "Unary" ->
           (IF e.op = "!" THEN {e.operand} ELSE {}) \cup Operands(e.operand, fn, all)
      [] e.kind = "Binary" ->
           (IF e.op \in {"&&", "||"} THEN {e.left} ELSE {})
               \cup Operands(e.left, fn, all) \cup Operands(e.right, fn, all)
      [] e.kind = "Call" ->
           IF all \/ (e.callee.kind = "Identifier" /\ e.callee.name \in DOMAIN fn)
           THEN ArgumentOperands(e.arguments, 1, fn, all) ELSE {}
      [] OTHER -> {}

ArgumentOperands(arguments, i, fn, all) ==
    IF i > Len(arguments) THEN {}
    ELSE Operands(arguments[i], fn, all)
         \cup ArgumentOperands(arguments, i + 1, fn, all)

\* the operands in the expressions of a statement
StmtOperands(s, fn, all) ==
    IF s.kind \in {"Let", "Assign"} THEN Operands(s.value, fn, all)
    ELSE IF s.kind = "Return"
    THEN IF s.value = NoExpr THEN {} ELSE Operands(s.value, fn, all)
    ELSE IF s.kind = "Expr" THEN Operands(s.expr, fn, all)
    ELSE IF s.kind \in {"If", "While"} THEN Operands(s.condition, fn, all)
    ELSE IF s.kind = "For" THEN Operands(s.condition, fn, all)
    ELSE {}

\* C26: in a statement that check accepts, every operand of ! and every
\* left operand of && and || has type BOOL or ANY and every call of a known
\* function passes as many arguments as it has parameters, the expressions
\* in the arguments of calls of unknown and member callees included
EverySubexpressionChecked ==
    tcPc = "checked" =>
        /\ \A o \in StmtOperands(stmt, functions_, TRUE) :
               BoolOrAny(checkExpression(o, tcBefore, functions_))
        /\ \A c \in KnownCalls(stmt, functions_) : c[2] = c[3]

\* the operands that checkExpression visits have type BOOL or ANY
VisitedOperandsChecked ==
    tcPc = "checked" =>
        \A o \in StmtOperands(stmt, functions_, FALSE) :
            BoolOrAny(checkExpression(o, tcBefore, functions_))

\* current_ is at most the index of the last token
CursorWithinTokens == current_ <= Len(tokens_) - 1

\* a parseStatement that returns has consumed a token
StatementsConsume ==
    [][(parPc = "ready" /\ parPc' = "ready") => current_' > current_]_vars

\* the turns the loop of parse has taken are at most as many as the tokens
\* before the last, so parse comes to return or throw
ParseEnds ==
    parPc \in {"ready", "done"} =>
        /\ Len(parsed.node) <= current_
        /\ Len(parsed.node) <= Len(tokens_) - 1

\* the exception that leaves parse is a ParseError
OnlyParseErrors == parPc = "threw" => parsed.exception = "ParseError"

\* C27: on a token list that ends in END_OF_FILE or ERROR, parse ends by
\* returning the statements or throwing a ParseError, every parseStatement
\* that returns has consumed a token, and current_ is never past the last
\* token
ParserTermination ==
    /\ []CursorWithinTokens
    /\ StatementsConsume
    /\ []OnlyParseErrors
    /\ []ParseEnds

\* the lines of an op among the lines generateCall emitted for the call,
\* its call instruction included
LinesOf(c, op) == {i \in c.from..c.at : output_[i].op = op}

\* what the prologue of the frame of line i subtracts from rsp
FrameSize(i) == output_[FrameOf(i) + 3].b

\* the processor is back from the i-th call generated
ReturnedFrom(i) == cgPc = "running" /\ ip = cgCalls[i].at + 1

\* as many push as pop among the lines of the call, and rsp after a call
\* that is a whole statement where the prologue left it
Neutral(i) ==
    /\ WholeGenerated =>
           Cardinality(LinesOf(cgCalls[i], "push"))
               = Cardinality(LinesOf(cgCalls[i], "pop"))
    /\ (ReturnedFrom(i) /\ cgStmt \in StackPrograms) =>
           regs["rsp"] = regs["rbp"] - FrameSize(ip)

\* C28: the code of an expression executes as many push as pop and leaves
\* rsp as it found it, calls with more arguments than parameter registers
\* included
ExpressionsStackNeutral == \A i \in 1..Len(cgCalls) : Neutral(i)

\* the code of a call of at most six arguments is neutral
RegisterCallsNeutral ==
    \A i \in 1..Len(cgCalls) :
        Len(cgCalls[i].arguments) <= Len(paramRegs) => Neutral(i)

\* the frame generated last
LastFrame == FrameOf(Len(output_))

\* the name the declaration at line i declares, if a let declares it
NameAt(i) ==
    IF output_[HeadOf(i)].op = "comment" THEN output_[HeadOf(i)].a[2] ELSE <<>>

\* C29: in a frame, a function body or main, every declareLocal returns an
\* offset above all that it returned before in the frame, and stackOffset_
\* stays at or above them: the locals of sibling and nested scopes,
\* shadowing and repeated declarations have slots of their own
DistinctSlots ==
    WholeGenerated =>
        /\ \A i, j \in Declarations :
               (FrameOf(i) = FrameOf(j) /\ i < j) => output_[i].a < output_[j].a
        /\ \A i \in Declarations :
               FrameOf(i) = LastFrame => output_[i].a <= stackOffset_

\* a frame holds the locals of both branches of an if, and a local after
\* them
SiblingScopesDeclared ==
    /\ WholeGenerated
    /\ \E i, j, k \in Declarations :
           /\ FrameOf(i) = FrameOf(j) /\ FrameOf(j) = FrameOf(k)
           /\ NameAt(i) = <<"y">> /\ NameAt(j) = <<"z">> /\ NameAt(k) = <<"w">>
           /\ output_[i].a < output_[j].a /\ output_[j].a < output_[k].a

\* a frame holds two locals of one name
ShadowingDeclared ==
    /\ WholeGenerated
    /\ \E i, j \in Declarations :
           /\ FrameOf(i) = FrameOf(j) /\ i < j
           /\ NameAt(i) # <<>> /\ NameAt(i) = NameAt(j)
           /\ output_[i].a # output_[j].a

\* what the first call of generate on a new CodeGenerator returns
FirstText ==
    CHOOSE text \in {generateRest(cgStmt, functions, "ascending").output :
                        functions \in {generateText(cgStmt, CodeGenerator)}} : TRUE

\* C30: generate called twice on one CodeGenerator with the same statements
\* returns the same text both times
GenerateRepeatable == cgPc = "again" => output_ = FirstText

\* the first call returns the text of a generator just constructed
FirstCallFromConstruction == cgPc = "generated" => output_ = FirstText

\* the second text is the first where the first call left stackOffset_,
\* labelCounter_ and stringCounter_ as the constructor set them
RepeatableWhenCountersUnmoved ==
    (cgPc = "again" /\ labelCounter_ = 0 /\ stringCounter_ = 0 /\ stackOffset_ = 0)
        => output_ = FirstText

====
